---- MODULE Spec2Model ----
(***************************************************************************)
(* Load / cache / retry engine of the Advanced Image Loading System        *)
(* (src/unnamed/part_000).  The model follows the JavaScript event loop:   *)
(* every action is one task (a public call, an IndexedDB / fetch / timer   *)
(* callback) together with the microtasks it triggers (await               *)
(* continuations, .then(resolve).catch(reject) propagation).  Delays of    *)
(* timers and of the network are abstracted: a pending callback may fire   *)
(* at any later step.                                                      *)
(***************************************************************************)
EXTENDS Naturals, Sequences, FiniteSets, TLC

\* ------------------------------------------------------------------ bounds
\* normalized URLs (cache keys) used by the callers
Keys == {"a", "b"}

\* number of loadImage invocations made from outside loadImage itself
MaxCalls == 2

\* number of promises loadImage creates in a run; an outside call is taken
\* only when the retries of the loads already running still fit
MaxPromises == 4

\* CONFIG.MAX_RETRIES, scaled down from 3: a load makes MAX_RETRIES + 1 attempts
MAX_RETRIES == 1

\* image elements of the document and the normalized source of each
Elems == {"img"}

ElemKey(e) == "a"

\* CONFIG.MEMORY_CACHE_MAX, scaled down so that LRU eviction takes place
MEMORY_CACHE_MAX == 1

\* last value of the clock Date.now()
MaxNow == 604800000

\* number of query parameters of the URLs handed to the normalizer
MaxParams == 2

\* number of times the normalizer is applied to its own result
MaxPasses == 2

\* the clock in the runs of the store alone goes up to CACHE_DURATION + MaxPast
MaxPast == 1

\* CONFIG.MEMORY_CACHE_MAX in the runs of the memory cache alone, scaled down
\* from 50; these runs use one key more than the cache holds
LruCapacity == 3

LruKeys == 1..(LruCapacity + 1)

\* object URLs stored by those runs
LruHandles == {1, 2}

\* ------------------------------------------------------- program constants
CACHE_DURATION == 7 * 24 * 60 * 60 * 1000

\* ------------------------------------------------------------------- state
VARIABLES
    memoryCache,   \* state.memoryCache: Map in insertion order, <<[key, val]>>
    loading,       \* state.loading: key -> promise id, 0 when absent
    failed,        \* state.failed: key -> record, NoFailure when absent
    dbOpen,        \* state.db is not null
    idb,           \* object store 'images': key -> [blob, timestamp]
    now,           \* Date.now()
    promises,      \* every promise made by loadImage, by id
    calls,         \* outside invocations of loadImage and what they got back
    revoked,       \* object URLs passed to URL.revokeObjectURL
    fetchCount,    \* key -> number of fetch() calls issued
    putRequested,  \* keys for which storeInIndexedDB was called
    overlap,       \* pairs of calls of one key that were pending together
    observer,      \* state.observer is not null
    elements,      \* per image element: dataset.enhanced, dataset.pendingLoad
                   \* and whether its wrapper is observed
    url,           \* a URL string handed to the normalizer and to the callers
    converted,     \* results of applying convertDropboxUrl of the loader repeatedly
    convertedFix,  \* results of applying window.convertDropboxUrl of image-fix.js
    keysUsed,      \* the map keys each operation on url has addressed
    recency,       \* the keys of the memory cache, least recently accessed first
    got,           \* the last key read with getFromIndexedDB, the result, how
                   \* the request ended and when
    prefetch,      \* the closure of a call of prefetchImages: fixedUrls, index,
                   \* the batch waiting for idle time, the batches issued
    backoff,       \* an attempt number, a value of Math.random() and the
                   \* delay getRetryDelay returns for them
    imgLoads,      \* every promise made by loadImageElement, by id
    clearedAt,     \* the number of promises loadImage had made when clearCache
                   \* last ran
    fix            \* image-fix.js: window.imageCache, window.loadingImages,
                   \* window.failedImages and the calls of loadImageWithRetry

\* the state of the load engine
engineVars == <<memoryCache, loading, failed, dbOpen, idb, now, promises, calls,
                revoked, fetchCount, putRequested, overlap, observer, elements>>

\* the state of the runs of the normalizer, the memory cache and the store alone
normVars == <<url, converted, convertedFix, keysUsed, recency, got,
              prefetch, backoff, imgLoads, clearedAt, fix>>

vars == <<memoryCache, loading, failed, dbOpen, idb, now, promises, calls,
          revoked, fetchCount, putRequested, overlap, observer, elements,
          url, converted, convertedFix, keysUsed, recency, got,
          prefetch, backoff, imgLoads, clearedAt, fix>>

NoEntry == [blob |-> "none", timestamp |-> 0]

NoFailure == [attempts |-> 0, lastAttempt |-> 0, error |-> "none"]

\* getFromIndexedDB has not been called
NoRead == [key |-> "none", blob |-> "none", rd |-> "none", at |-> 0]

\* prefetchImages has not been called
NoPrefetch == [phase |-> "none", fixedUrls |-> <<>>, index |-> 0, batch |-> <<>>,
               issued |-> <<>>, lastAt |-> 0, snap |-> {}]

\* URLs handed to loadImageWithRetry
FixUrls == {"u", "v"}

\* no call of loadImageWithRetry was made and the three collections are
\* empty.  cache maps a URL to the image it holds and loading to the call that
\* added it, 0 when the URL is absent.
NoFix == [cache |-> [u \in FixUrls |-> 0], loading |-> [u \in FixUrls |-> 0],
          failed |-> {}, calls |-> <<>>]

\* getRetryDelay has not been called
NoBackoff == [attempt |-> 0, random |-> 0, delay |-> 0]

Pending == {"idb", "fetch", "blob", "stalled", "backoff", "chained"}

Settled == {"resolved", "rejected"}

\* --------------------------------------------------------- memory cache
MemHas(mc, k) == \E i \in 1..Len(mc) : mc[i].key = k

MemIndex(mc, k) == CHOOSE i \in 1..Len(mc) : mc[i].key = k

MemVal(mc, k) == mc[MemIndex(mc, k)].val

MemDelete(mc, k) == SelectSeq(mc, LAMBDA e : e.key # k)

\* Map.prototype.set: a present key keeps its position, a new one goes last
MemSet(mc, k, v) ==
    IF MemHas(mc, k)
    THEN [i \in 1..Len(mc) |-> IF mc[i].key = k THEN [key |-> k, val |-> v] ELSE mc[i]]
    ELSE Append(mc, [key |-> k, val |-> v])

\* getFromMemoryCache: the cache after the lookup (hit moves the key last)
getFromMemoryCache(mc, k) ==
    IF MemHas(mc, k)
    THEN Append(MemDelete(mc, k), [key |-> k, val |-> MemVal(mc, k)])
    ELSE mc

\* the eviction loop entered only when the cache holds more than cap entries
EvictCountAtStrict(mc, cap) == IF Len(mc) > cap THEN Len(mc) - cap ELSE 0

\* the eviction loop of storeInMemoryCache with CONFIG.MEMORY_CACHE_MAX = cap:
\* number of oldest entries dropped
EvictCountAt(mc, cap) == IF Len(mc) >= cap THEN Len(mc) - cap + 1 ELSE 0

\* the eviction loop of storeInMemoryCache: number of oldest entries dropped
EvictCount(mc) == EvictCountAt(mc, MEMORY_CACHE_MAX)

\* handles revoked by the eviction loop
EvictedHandles(mc) == {mc[i].val : i \in 1..EvictCount(mc)}

\* storeInMemoryCache with the entry set before the eviction loop runs
storeInMemoryCacheSetFirst(mc, k, v) ==
    SubSeq(MemSet(mc, k, v), EvictCount(MemSet(mc, k, v)) + 1, Len(MemSet(mc, k, v)))

\* storeInMemoryCache with the evicted entries revoked and not deleted
storeInMemoryCacheNoDelete(mc, k, v) == MemSet(mc, k, v)

\* storeInMemoryCache with CONFIG.MEMORY_CACHE_MAX = cap
storeInMemoryCacheAt(mc, k, v, cap) ==
    MemSet(SubSeq(mc, EvictCountAt(mc, cap) + 1, Len(mc)), k, v)

\* storeInMemoryCache: the oldest entries are dropped, then the entry is set
storeInMemoryCache(mc, k, v) ==
    MemSet(SubSeq(mc, EvictCount(mc) + 1, Len(mc)), k, v)

\* --------------------------------------------------------- promises
RECURSIVE Root(_, _)
\* the promise whose settlement settles promise i (.then(resolve).catch(reject))
Root(ps, i) == IF ps[i].pc = "chained" THEN Root(ps, ps[i].follow) ELSE i

\* promise q settles and the promises chained to it are left pending
SettleOnlyRoot(ps, q, pc, val, err) ==
    [i \in 1..Len(ps) |->
        IF i = q
        THEN [ps[i] EXCEPT !.pc = pc, !.val = val, !.err = err,
                           !.follow = 0, !.snap = NoEntry, !.readErr = FALSE]
        ELSE ps[i]]

\* promise q settles: so does every promise chained to it
SettleAll(ps, q, pc, val, err) ==
    [i \in 1..Len(ps) |->
        IF Root(ps, i) = q
        THEN [ps[i] EXCEPT !.pc = pc, !.val = val, !.err = err,
                           !.follow = 0, !.snap = NoEntry, !.readErr = FALSE]
        ELSE ps[i]]

\* a promise of loadImage: pc is where its executor is suspended, snap the
\* entry its read transaction sees, readErr whether that request will fail
NewPromise(k, attempt, pc, snap, readErr) ==
    [key |-> k, attempt |-> attempt, pc |-> pc, val |-> 0, err |-> "none",
     follow |-> 0, snap |-> snap, readErr |-> readErr]

\* Promise.resolve(cached)
ResolvedPromise(k, v) ==
    [key |-> k, attempt |-> 0, pc |-> "resolved", val |-> v, err |-> "none",
     follow |-> 0, snap |-> NoEntry, readErr |-> FALSE]

\* which branch loadImage takes for key k
LoadBranch(k) ==
    IF loading[k] # 0 THEN "join"
    ELSE IF MemHas(memoryCache, k) THEN "hit"
    ELSE "new"

\* how the store read of a new load goes: the request succeeds, the request
\* fails (onerror), or opening the transaction throws
ReadModes == {"ok", "error", "throws"}

\* getFromIndexedDB with no test of state.db
StartsFetchIgnoresDb(rd) == rd = "throws"

\* getFromIndexedDB resolves null at once: no database, or the transaction throws
StartsFetch(rd) == ~dbOpen \/ rd = "throws"

\* the executor of the new promise up to its first suspension: the read
\* request of getFromIndexedDB, or, when that resolves null at once, the fetch
StartPromise(k, attempt, rd) ==
    IF StartsFetch(rd)
    THEN NewPromise(k, attempt, "fetch", NoEntry, FALSE)
    ELSE NewPromise(k, attempt, "idb", idb[k], rd = "error")

RECURSIVE Need(_, _)
\* bound: promises the loads already running may still create by retrying
Need(ps, i) ==
    IF i = 0 THEN 0
    ELSE Need(ps, i - 1) +
         (IF ps[i].pc \in {"idb", "fetch", "blob", "backoff"}
          THEN MAX_RETRIES - ps[i].attempt ELSE 0)

\* bound: promises that may still be created by a new outside call
Room(ps) == MaxPromises - (Len(ps) + Need(ps, Len(ps)))

\* an image element that enhanceImageElement has not seen
NewElement == [enhanced |-> FALSE, pendingLoad |-> FALSE, observed |-> FALSE]

\* outside calls for key k whose promise is not settled
PendingCalls(ps, k) ==
    {c \in 1..Len(calls) : calls[c].key = k /\ ps[calls[c].pid].pc \in Pending}

\* ------------------------------------------------------------- normalizer
\* A URL string is a sequence of pieces, each piece a literal run of
\* characters ("https://", "www.", "dropbox.com", "?", "&", "amp;", "dl=",
\* "0", ...); the patterns the code searches for are sequences of pieces.

\* pat occurs in s at position i
MatchAt(s, i, pat) ==
    /\ i + Len(pat) - 1 <= Len(s)
    /\ SubSeq(s, i, i + Len(pat) - 1) = pat

\* String.prototype.includes
Includes(s, pat) == \E i \in 1..Len(s) : MatchAt(s, i, pat)

RECURSIVE ReplaceFrom(_, _, _, _)
\* String.prototype.replace with a global pattern, from position i on: pats are
\* the strings the pattern matches, all of one length
ReplaceFrom(s, i, pats, rep) ==
    IF i > Len(s) THEN <<>>
    ELSE IF \E pat \in pats : MatchAt(s, i, pat)
         THEN rep \o ReplaceFrom(s, i + Len(CHOOSE pat \in pats : MatchAt(s, i, pat)), pats, rep)
         ELSE <<s[i]>> \o ReplaceFrom(s, i + 1, pats, rep)

ReplaceAll(s, pats, rep) == ReplaceFrom(s, 1, pats, rep)

\* String.prototype.replace with a string pattern: the first occurrence only
ReplaceFirst(s, pat, rep) ==
    IF Includes(s, pat)
    THEN LET i == CHOOSE j \in 1..Len(s) :
                      MatchAt(s, j, pat) /\ \A h \in 1..(j - 1) : ~MatchAt(s, h, pat)
         IN SubSeq(s, 1, i - 1) \o rep \o SubSeq(s, i + Len(pat), Len(s))
    ELSE s

\* url.replace(/&amp;/g, '&')
DecodeAmp(s) == ReplaceAll(s, {<<"&", "amp;">>}, <<"&">>)

\* the strings matched by /\?dl=[01]/
QDl == {<<"?", "dl=", "0">>, <<"?", "dl=", "1">>}

\* the strings matched by /[?&]dl=[01]/
QADl == QDl \cup {<<"&", "dl=", "0">>, <<"&", "dl=", "1">>}

\* new URL(url) does not throw: the string is an absolute URL
UrlParses(s) == Len(s) > 0 /\ s[1] = "https://"

\* position of the first "?" of s, Len(s) + 1 when there is none
QueryStart(s) ==
    IF Includes(s, <<"?">>)
    THEN CHOOSE j \in 1..Len(s) : s[j] = "?" /\ \A h \in 1..(j - 1) : s[h] # "?"
    ELSE Len(s) + 1

\* the URL up to its query
UrlBase(s) == SubSeq(s, 1, QueryStart(s) - 1)

\* the query of the URL, without the "?"
UrlQuery(s) == SubSeq(s, QueryStart(s) + 1, Len(s))

RECURSIVE SplitParams(_, _)
\* URLSearchParams of a query: the name=value pairs between "&", empty ones
\* dropped; cur is the pair being read
SplitParams(q, cur) ==
    IF q = <<>> THEN (IF cur = <<>> THEN <<>> ELSE <<cur>>)
    ELSE IF Head(q) = "&"
         THEN (IF cur = <<>> THEN <<>> ELSE <<cur>>) \o SplitParams(Tail(q), <<>>)
         ELSE SplitParams(Tail(q), Append(cur, Head(q)))

\* the name of a pair
ParamName(pr) ==
    IF pr[1] = "dl=" THEN "dl" ELSE IF pr[1] = "raw=" THEN "raw" ELSE "other"

\* searchParams.delete(name)
ParamsDelete(ps, name) == SelectSeq(ps, LAMBDA pr : ParamName(pr) # name)

\* searchParams.set('raw', '1'): the first pair named raw gets the value and
\* the other pairs of that name are removed; with none, the pair is appended
ParamsSetRaw(ps) ==
    IF \E i \in 1..Len(ps) : ParamName(ps[i]) = "raw"
    THEN LET f == CHOOSE i \in 1..Len(ps) :
                      ParamName(ps[i]) = "raw" /\ \A h \in 1..(i - 1) : ParamName(ps[h]) # "raw"
         IN SubSeq(ps, 1, f - 1) \o <<(<<"raw=", "1">>)>>
                \o ParamsDelete(SubSeq(ps, f + 1, Len(ps)), "raw")
    ELSE Append(ps, <<"raw=", "1">>)

\* the form-urlencoded serializer percent-encodes the ";" of a name
EncodePiece(t) == IF t = "amp;" THEN "amp%3B" ELSE t

RECURSIVE JoinParams(_)
\* the serialized query: the pairs joined with "&"
JoinParams(ps) ==
    IF ps = <<>> THEN <<>>
    ELSE [i \in 1..Len(Head(ps)) |-> EncodePiece(Head(ps)[i])]
            \o (IF Len(ps) > 1 THEN <<"&">> ELSE <<>>) \o JoinParams(Tail(ps))

\* urlObj.toString() after searchParams.delete('dl') and set('raw', '1')
UrlObjToString(s) ==
    UrlBase(s) \o <<"?">>
        \o JoinParams(ParamsSetRaw(ParamsDelete(SplitParams(UrlQuery(s), <<>>), "dl")))

\* the string patching of a new-share URL (catch branch of the loader and the
\* only branch of image-fix.js)
PatchNewShare(s) ==
    LET t == ReplaceAll(s, QADl, <<>>)
    IN IF Includes(t, <<"raw=", "1">>) THEN t
       ELSE t \o (IF Includes(t, <<"?">>) THEN <<"&">> ELSE <<"?">>) \o <<"raw=", "1">>

\* the rewrite of a legacy-share URL
PatchLegacy(s) ==
    ReplaceAll(ReplaceFirst(s, <<"www.", "dropbox.com">>, <<"dl.dropboxusercontent.com">>),
               QDl, <<>>)

\* convertDropboxUrl of the loader
convertDropboxUrl(u) ==
    IF u = <<>> THEN u
    ELSE LET s == DecodeAmp(u)
         IN IF Includes(s, <<"dl.dropboxusercontent.com">>) THEN s
            ELSE IF Includes(s, <<"dropbox.com", "/scl/">>)
                 THEN (IF UrlParses(s) THEN UrlObjToString(s) ELSE PatchNewShare(s))
            ELSE IF Includes(s, <<"dropbox.com", "/s/">>) THEN PatchLegacy(s)
            ELSE s

\* window.convertDropboxUrl of image-fix.js
windowConvertDropboxUrl(u) ==
    IF u = <<>> THEN u
    ELSE LET s == DecodeAmp(u)
         IN IF Includes(s, <<"dl.dropboxusercontent.com">>) THEN s
            ELSE IF Includes(s, <<"dropbox.com", "/scl/">>) THEN PatchNewShare(s)
            ELSE IF Includes(s, <<"dropbox.com", "/s/">>) THEN PatchLegacy(s)
            ELSE s

\* a load of key k has settled as failed
HasRejected(ps, k) == \E i \in 1..Len(ps) : ps[i].key = k /\ ps[i].pc = "rejected"

Init ==
    /\ memoryCache = <<>>
    /\ loading = [k \in Keys |-> 0]
    /\ failed = [k \in Keys |-> NoFailure]
    /\ dbOpen \in BOOLEAN
    /\ idb \in [Keys -> {NoEntry, [blob |-> "image", timestamp |-> 0]}]
    /\ (~dbOpen => idb = [k \in Keys |-> NoEntry])
    /\ now = 0
    /\ promises = <<>>
    /\ calls = <<>>
    /\ revoked = {}
    /\ fetchCount = [k \in Keys |-> 0]
    /\ putRequested = {}
    /\ overlap = {}
    /\ observer \in BOOLEAN
    /\ elements = [e \in Elems |-> NewElement]
    /\ url = <<>>
    /\ converted = <<>>
    /\ convertedFix = <<>>
    /\ keysUsed = {}
    /\ recency = <<>>
    /\ got = NoRead
    /\ prefetch = NoPrefetch
    /\ backoff = NoBackoff
    /\ imgLoads = <<>>
    /\ clearedAt = 0
    /\ fix = NoFix

\* loadImage with the new promise not entered in state.loading
loadImageInsertLater(k, src, rd) ==
    /\ Len(calls) < MaxCalls
    /\ (dbOpen \/ rd = "ok")
    /\ Room(promises) >= (CASE LoadBranch(k) = "join" -> 0
                            [] LoadBranch(k) = "hit" -> 1
                            [] LoadBranch(k) = "new" -> MAX_RETRIES + 1)
    /\ LET n == Len(promises) + 1
           c == Len(calls) + 1
       IN CASE LoadBranch(k) = "join" ->
                 /\ calls' = Append(calls, [key |-> k, pid |-> loading[k], src |-> src,
                                          afterFail |-> HasRejected(promises, k)])
                 /\ overlap' = overlap \cup {<<d, c>> : d \in PendingCalls(promises, k)}
                 /\ UNCHANGED <<promises, memoryCache, loading, fetchCount>>
            [] LoadBranch(k) = "hit" ->
                 /\ memoryCache' = getFromMemoryCache(memoryCache, k)
                 /\ promises' = Append(promises, ResolvedPromise(k, MemVal(memoryCache, k)))
                 /\ calls' = Append(calls, [key |-> k, pid |-> n, src |-> src,
                                          afterFail |-> HasRejected(promises, k)])
                 /\ UNCHANGED <<loading, fetchCount, overlap>>
            [] LoadBranch(k) = "new" ->
                 /\ promises' = Append(promises, StartPromise(k, 0, rd))
                 /\ calls' = Append(calls, [key |-> k, pid |-> n, src |-> src,
                                          afterFail |-> HasRejected(promises, k)])
                 /\ overlap' = overlap \cup {<<d, c>> : d \in PendingCalls(promises, k)}
                 /\ fetchCount' = [fetchCount EXCEPT ![k] =
                                      IF StartsFetch(rd) THEN @ + 1 ELSE @]
                 /\ UNCHANGED <<memoryCache, loading>>
    /\ UNCHANGED <<dbOpen, idb, now, revoked, putRequested, observer>>

\* loadImage(url) called from outside (attempt = 0) by src
loadImage(k, src, rd) ==
    /\ Len(calls) < MaxCalls
    /\ (dbOpen \/ rd = "ok")
    /\ Room(promises) >= (CASE LoadBranch(k) = "join" -> 0
                            [] LoadBranch(k) = "hit" -> 1
                            [] LoadBranch(k) = "new" -> MAX_RETRIES + 1)
    /\ LET n == Len(promises) + 1
           c == Len(calls) + 1
       IN CASE LoadBranch(k) = "join" ->
                 /\ calls' = Append(calls, [key |-> k, pid |-> loading[k], src |-> src,
                                          afterFail |-> HasRejected(promises, k)])
                 /\ overlap' = overlap \cup {<<d, c>> : d \in PendingCalls(promises, k)}
                 /\ UNCHANGED <<promises, memoryCache, loading, fetchCount>>
            [] LoadBranch(k) = "hit" ->
                 /\ memoryCache' = getFromMemoryCache(memoryCache, k)
                 /\ promises' = Append(promises, ResolvedPromise(k, MemVal(memoryCache, k)))
                 /\ calls' = Append(calls, [key |-> k, pid |-> n, src |-> src,
                                          afterFail |-> HasRejected(promises, k)])
                 /\ UNCHANGED <<loading, fetchCount, overlap>>
            [] LoadBranch(k) = "new" ->
                 /\ promises' = Append(promises, StartPromise(k, 0, rd))
                 /\ loading' = [loading EXCEPT ![k] = n]
                 /\ calls' = Append(calls, [key |-> k, pid |-> n, src |-> src,
                                          afterFail |-> HasRejected(promises, k)])
                 /\ overlap' = overlap \cup {<<d, c>> : d \in PendingCalls(promises, k)}
                 /\ fetchCount' = [fetchCount EXCEPT ![k] =
                                      IF StartsFetch(rd) THEN @ + 1 ELSE @]
                 /\ UNCHANGED memoryCache
    /\ UNCHANGED <<dbOpen, idb, now, revoked, putRequested, observer>>

\* window.ImageLoader.loadImage(url)
CallLoadImage(k, rd) ==
    /\ UNCHANGED normVars
    /\ loadImage(k, "api", rd)
    /\ UNCHANGED <<failed, elements>>

\* enhanceImageElement with doLoad run at once, observer or not
enhanceImageElementEager(e, rd) ==
    /\ UNCHANGED normVars
    /\ ~elements[e].enhanced
    /\ elements' = [elements EXCEPT ![e].enhanced = TRUE]
    /\ loadImage(ElemKey(e), "doLoad", rd)
    /\ UNCHANGED failed

\* enhanceImageElement(img): registers the wrapper with the observer, or
\* runs doLoad at once when there is no observer
enhanceImageElement(e, rd) ==
    /\ UNCHANGED normVars
    /\ ~elements[e].enhanced
    /\ IF observer
       THEN /\ rd = "ok"
            /\ elements' = [elements EXCEPT ![e] =
                   [enhanced |-> TRUE, pendingLoad |-> TRUE, observed |-> TRUE]]
            /\ UNCHANGED <<memoryCache, loading, dbOpen, idb, now, promises, calls,
                           revoked, fetchCount, putRequested, overlap, observer>>
       ELSE /\ elements' = [elements EXCEPT ![e].enhanced = TRUE]
            /\ loadImage(ElemKey(e), "doLoad", rd)
    /\ UNCHANGED failed

\* the IntersectionObserver callback with the wrapper left observed and the
\* image left pending
IntersectKeepsPending(e, rd) ==
    /\ UNCHANGED normVars
    /\ observer
    /\ elements[e].observed
    /\ loadImage(ElemKey(e), "doLoad", rd)
    /\ UNCHANGED <<failed, elements>>

\* the IntersectionObserver callback for an intersecting wrapper
Intersect(e, rd) ==
    /\ UNCHANGED normVars
    /\ observer
    /\ elements[e].observed
    /\ elements' = [elements EXCEPT ![e].pendingLoad = FALSE, ![e].observed = FALSE]
    /\ IF elements[e].pendingLoad
       THEN loadImage(ElemKey(e), "doLoad", rd)
       ELSE rd = "ok" /\ UNCHANGED <<memoryCache, loading, dbOpen, idb, now, promises, calls,
                        revoked, fetchCount, putRequested, overlap, observer>>
    /\ UNCHANGED failed

\* retryImage(img): window.ImageLoader.retry
retryImage(e, rd) ==
    /\ UNCHANGED normVars
    /\ elements[e].enhanced
    /\ failed' = [failed EXCEPT ![ElemKey(e)] = NoFailure]
    /\ loadImage(ElemKey(e), "retry", rd)
    /\ UNCHANGED elements

\* the catch block with the in-flight entry kept when the load fails for good
CatchKeepsEntry(p, kind) ==
    LET k == promises[p].key
        attempt == promises[p].attempt
    IN IF attempt < MAX_RETRIES
       THEN /\ promises' = [promises EXCEPT ![p].pc = "backoff"]
            /\ loading' = [loading EXCEPT ![k] = 0]
            /\ UNCHANGED failed
       ELSE /\ failed' = [failed EXCEPT ![k] =
                             [attempts |-> attempt + 1, lastAttempt |-> now, error |-> kind]]
            /\ promises' = SettleAll(promises, p, "rejected", 0, kind)
            /\ UNCHANGED loading

\* the catch block with a retry budget one attempt short
CatchRejectsEarly(p, kind) ==
    LET k == promises[p].key
        attempt == promises[p].attempt
    IN /\ loading' = [loading EXCEPT ![k] = 0]
       /\ IF attempt + 1 < MAX_RETRIES
          THEN /\ promises' = [promises EXCEPT ![p].pc = "backoff"]
               /\ UNCHANGED failed
          ELSE /\ failed' = [failed EXCEPT ![k] =
                                [attempts |-> attempt + 1, lastAttempt |-> now, error |-> kind]]
               /\ promises' = SettleAll(promises, p, "rejected", 0, kind)

\* the catch block of loadImage, entered by promise p with an error of kind
Catch(p, kind) ==
    LET k == promises[p].key
        attempt == promises[p].attempt
    IN /\ loading' = [loading EXCEPT ![k] = 0]
       /\ IF attempt < MAX_RETRIES
          THEN /\ promises' = [promises EXCEPT ![p].pc = "backoff"]
               /\ UNCHANGED failed
          ELSE /\ failed' = [failed EXCEPT ![k] =
                                [attempts |-> attempt + 1, lastAttempt |-> now, error |-> kind]]
               /\ promises' = SettleAll(promises, p, "rejected", 0, kind)

\* storeInIndexedDB: the object store after put, which does nothing without a
\* database or when opening the transaction throws
storeInIndexedDB(store, k, blob, putThrows) ==
    IF dbOpen /\ ~putThrows
    THEN [store EXCEPT ![k] = [blob |-> blob, timestamp |-> now]]
    ELSE store

\* the tail of the try block with a put that throws into the catch block
SuccessPutPropagates(p, putThrows) ==
    LET k == promises[p].key
        h == p
    IN IF putThrows
       THEN /\ putRequested' = putRequested \cup {k}
            /\ UNCHANGED <<idb, revoked, memoryCache>>
            /\ Catch(p, "StorageError")
       ELSE /\ idb' = storeInIndexedDB(idb, k, "image", putThrows)
            /\ putRequested' = putRequested \cup {k}
            /\ revoked' = revoked \cup EvictedHandles(memoryCache)
            /\ memoryCache' = storeInMemoryCache(memoryCache, k, h)
            /\ failed' = [failed EXCEPT ![k] = NoFailure]
            /\ loading' = [loading EXCEPT ![k] = 0]
            /\ promises' = SettleAll(promises, p, "resolved", h, "none")

\* the tail of the try block of loadImage, after the blob was checked
Success(p, putThrows) ==
    LET k == promises[p].key
        h == p
    IN /\ idb' = storeInIndexedDB(idb, k, "image", putThrows)
       /\ putRequested' = putRequested \cup {k}
       /\ revoked' = revoked \cup EvictedHandles(memoryCache)
       /\ memoryCache' = storeInMemoryCache(memoryCache, k, h)
       /\ failed' = [failed EXCEPT ![k] = NoFailure]
       /\ loading' = [loading EXCEPT ![k] = 0]
       /\ promises' = SettleAll(promises, p, "resolved", h, "none")

\* getFromIndexedDB with the age test inverted
IdbResultAgeInverted(entry, readErr) ==
    IF ~readErr /\ entry # NoEntry /\ now - entry.timestamp >= CACHE_DURATION
    THEN entry.blob
    ELSE "none"

\* getFromIndexedDB with an entry of age CACHE_DURATION still served
IdbResultInclusive(entry, readErr) ==
    IF ~readErr /\ entry # NoEntry /\ now - entry.timestamp <= CACHE_DURATION
    THEN entry.blob
    ELSE "none"

\* what getFromIndexedDB resolves with when its request completes
IdbResult(entry, readErr) ==
    IF ~readErr /\ entry # NoEntry /\ now - entry.timestamp < CACHE_DURATION
    THEN entry.blob
    ELSE "none"

\* the read request of getFromIndexedDB completes (onsuccess or onerror) and
\* loadImage goes on: a stored blob settles the load, otherwise fetch starts
IdbDone(p) ==
    /\ UNCHANGED normVars
    /\ p \in 1..Len(promises)
    /\ promises[p].pc = "idb"
    /\ LET k == promises[p].key
           h == p
       IN IF IdbResult(promises[p].snap, promises[p].readErr) # "none"
          THEN /\ revoked' = revoked \cup EvictedHandles(memoryCache)
               /\ memoryCache' = storeInMemoryCache(memoryCache, k, h)
               /\ loading' = [loading EXCEPT ![k] = 0]
               /\ promises' = SettleAll(promises, p, "resolved", h, "none")
               /\ UNCHANGED fetchCount
          ELSE /\ promises' = [promises EXCEPT ![p].pc = "fetch", ![p].snap = NoEntry,
                                                ![p].readErr = FALSE]
               /\ fetchCount' = [fetchCount EXCEPT ![k] = @ + 1]
               /\ UNCHANGED <<revoked, memoryCache, loading>>
    /\ UNCHANGED <<failed, dbOpen, idb, now, calls, putRequested, overlap,
                   observer, elements>>

\* fetch resolves with a response: the timeout is cleared, a bad status
\* throws, otherwise response.blob() is awaited; the body may never complete
FetchResponse(p, ok, bodyStalls) ==
    /\ UNCHANGED normVars
    /\ p \in 1..Len(promises)
    /\ promises[p].pc = "fetch"
    /\ IF ~ok
       THEN Catch(p, "BadStatus")
       ELSE /\ promises' = [promises EXCEPT ![p].pc = IF bodyStalls THEN "stalled" ELSE "blob"]
            /\ UNCHANGED <<loading, failed>>
    /\ UNCHANGED <<memoryCache, dbOpen, idb, now, calls, revoked,
                   fetchCount, putRequested, overlap, observer, elements>>

\* fetch rejects with a network error
FetchError(p) ==
    /\ UNCHANGED normVars
    /\ p \in 1..Len(promises)
    /\ promises[p].pc = "fetch"
    /\ Catch(p, "NetworkError")
    /\ UNCHANGED <<memoryCache, dbOpen, idb, now, calls, revoked,
                   fetchCount, putRequested, overlap, observer, elements>>

\* the LOAD_TIMEOUT timer fires while fetch is pending: controller.abort()
FetchTimeout(p) ==
    /\ UNCHANGED normVars
    /\ p \in 1..Len(promises)
    /\ promises[p].pc = "fetch"
    /\ Catch(p, "Timeout")
    /\ UNCHANGED <<memoryCache, dbOpen, idb, now, calls, revoked,
                   fetchCount, putRequested, overlap, observer, elements>>

\* the blob handler with no test of the media type
BlobDoneAnyType(p, type, putThrows) ==
    /\ UNCHANGED normVars
    /\ p \in 1..Len(promises)
    /\ promises[p].pc = "blob"
    /\ (putThrows => dbOpen)
    /\ Success(p, putThrows)
    /\ UNCHANGED <<dbOpen, now, calls, fetchCount, overlap, observer, elements>>

\* response.blob() resolves with a blob of the given media type
BlobDone(p, type, putThrows) ==
    /\ UNCHANGED normVars
    /\ p \in 1..Len(promises)
    /\ promises[p].pc = "blob"
    /\ (putThrows => dbOpen)
    /\ IF type # "image"
       THEN /\ Catch(p, "InvalidContentType")
            /\ UNCHANGED <<memoryCache, idb, revoked, putRequested>>
       ELSE Success(p, putThrows)
    /\ UNCHANGED <<dbOpen, now, calls, fetchCount, overlap, observer, elements>>

\* response.blob() rejects: the connection broke while the body was read
BlobError(p) ==
    /\ UNCHANGED normVars
    /\ p \in 1..Len(promises)
    /\ promises[p].pc = "blob"
    /\ Catch(p, "NetworkError")
    /\ UNCHANGED <<memoryCache, dbOpen, idb, now, calls, revoked,
                   fetchCount, putRequested, overlap, observer, elements>>

\* the backoff timer of promise p fires:
\* loadImage(url, attempt + 1).then(resolve).catch(reject)
RetryTimer(p, rd) ==
    /\ UNCHANGED normVars
    /\ p \in 1..Len(promises)
    /\ promises[p].pc = "backoff"
    /\ (dbOpen \/ rd = "ok")
    /\ LET k == promises[p].key
           n == Len(promises) + 1
       IN CASE LoadBranch(k) = "join" ->
                 /\ promises' = [promises EXCEPT ![p].pc = "chained", ![p].follow = loading[k]]
                 /\ UNCHANGED <<memoryCache, loading, fetchCount>>
            [] LoadBranch(k) = "hit" ->
                 /\ memoryCache' = getFromMemoryCache(memoryCache, k)
                 /\ promises' = SettleAll(promises, p, "resolved", MemVal(memoryCache, k), "none")
                 /\ UNCHANGED <<loading, fetchCount>>
            [] LoadBranch(k) = "new" ->
                 /\ promises' = Append([promises EXCEPT ![p].pc = "chained", ![p].follow = n],
                                       StartPromise(k, promises[p].attempt + 1, rd))
                 /\ loading' = [loading EXCEPT ![k] = n]
                 /\ fetchCount' = [fetchCount EXCEPT ![k] =
                                      IF StartsFetch(rd) THEN @ + 1 ELSE @]
                 /\ UNCHANGED memoryCache
    /\ UNCHANGED <<failed, dbOpen, idb, now, calls, revoked,
                   putRequested, overlap, observer, elements>>

\* getCacheStats: the sizes of the three maps
getCacheStats ==
    [memoryCache |-> Len(memoryCache),
     loading |-> Cardinality({k \in Keys : loading[k] # 0}),
     failed |-> Cardinality({k \in Keys : failed[k] # NoFailure})]

\* clearCache with the object URLs of the memory cache not revoked
clearCacheNoRevoke ==
    /\ UNCHANGED normVars
    /\ memoryCache' = <<>>
    /\ loading' = [k \in Keys |-> 0]
    /\ failed' = [k \in Keys |-> NoFailure]
    /\ idb' = IF dbOpen THEN [k \in Keys |-> NoEntry] ELSE idb
    /\ UNCHANGED <<dbOpen, now, promises, calls, fetchCount, revoked,
                   putRequested, overlap, observer, elements>>

\* clearCache
clearCache ==
    /\ UNCHANGED normVars
    /\ revoked' = revoked \cup {memoryCache[i].val : i \in 1..Len(memoryCache)}
    /\ memoryCache' = <<>>
    /\ loading' = [k \in Keys |-> 0]
    /\ failed' = [k \in Keys |-> NoFailure]
    /\ idb' = IF dbOpen THEN [k \in Keys |-> NoEntry] ELSE idb
    /\ UNCHANGED <<dbOpen, now, promises, calls, fetchCount,
                   putRequested, overlap, observer, elements>>

\* time passes: one retention period
Tick ==
    /\ UNCHANGED normVars
    /\ now + CACHE_DURATION <= MaxNow
    /\ now' = now + CACHE_DURATION
    /\ UNCHANGED <<memoryCache, loading, failed, dbOpen, idb, promises, calls,
                   revoked, fetchCount, putRequested, overlap, observer, elements>>

\* the callbacks that move promise p on
Complete(p) ==
    \/ IdbDone(p)
    \/ \E ok \in BOOLEAN, bodyStalls \in BOOLEAN : FetchResponse(p, ok, bodyStalls)
    \/ FetchError(p)
    \/ FetchTimeout(p)
    \/ \E type \in {"image", "other"}, putThrows \in BOOLEAN : BlobDone(p, type, putThrows)
    \/ BlobError(p)
    \/ \E rd \in ReadModes : RetryTimer(p, rd)

Next ==
    \/ \E k \in Keys, rd \in ReadModes : CallLoadImage(k, rd)
    \/ \E e \in Elems, rd \in ReadModes : enhanceImageElement(e, rd)
    \/ \E e \in Elems, rd \in ReadModes : Intersect(e, rd)
    \/ \E e \in Elems, rd \in ReadModes : retryImage(e, rd)
    \/ \E p \in 1..MaxPromises : IdbDone(p)
    \/ \E p \in 1..MaxPromises, ok \in BOOLEAN, bodyStalls \in BOOLEAN :
           FetchResponse(p, ok, bodyStalls)
    \/ \E p \in 1..MaxPromises : FetchError(p)
    \/ \E p \in 1..MaxPromises : FetchTimeout(p)
    \/ \E p \in 1..MaxPromises, type \in {"image", "other"}, putThrows \in BOOLEAN :
           BlobDone(p, type, putThrows)
    \/ \E p \in 1..MaxPromises : BlobError(p)
    \/ \E p \in 1..MaxPromises, rd \in ReadModes : RetryTimer(p, rd)
    \/ clearCache
    \/ Tick

Spec == Init /\ [][Next]_vars

\* the load engine with no call of clearCache
NextLoad ==
    \/ \E k \in Keys, rd \in ReadModes : CallLoadImage(k, rd)
    \/ \E e \in Elems, rd \in ReadModes : enhanceImageElement(e, rd)
    \/ \E e \in Elems, rd \in ReadModes : Intersect(e, rd)
    \/ \E e \in Elems, rd \in ReadModes : retryImage(e, rd)
    \/ \E p \in 1..MaxPromises : Complete(p)
    \/ Tick

LoadSpec == Init /\ [][NextLoad]_vars

\* timers fire and the callbacks of issued requests are delivered
FairSpec == Spec /\ \A p \in 1..MaxPromises : WF_vars(Complete(p))

\* ------------------------------------------------------ normalizer runs
\* the URLs handed to the normalizer: absolute or protocol-relative, on a
\* share host, the direct-content host or another host, with a legacy-share,
\* new-share or plain path, and up to MaxParams query parameters separated by
\* "&", "&amp;" or "&amp;amp;"
Schemes == {<<"https://">>, <<"//">>}

Hosts == {<<"www.", "dropbox.com">>, <<"dropbox.com">>,
          <<"dl.dropboxusercontent.com">>, <<"example.com">>}

Paths == {<<"/s/", "img.png">>, <<"/scl/", "img.png">>, <<"/", "img.png">>}

Params == {<<"dl=", "0">>, <<"dl=", "1">>, <<"raw=", "1">>, <<"raw=", "0">>, <<"rlkey=k">>}

Seps == {<<"&">>, <<"&", "amp;">>, <<"&", "amp;", "amp;">>}

RECURSIVE JoinWith(_, _)
JoinWith(ps, sep) ==
    IF ps = <<>> THEN <<>>
    ELSE Head(ps) \o (IF Len(ps) > 1 THEN sep ELSE <<>>) \o JoinWith(Tail(ps), sep)

Queries ==
    {<<>>} \cup
    {<<"?">> \o JoinWith(ps, sep) :
        ps \in UNION {[1..n -> Params] : n \in 1..MaxParams}, sep \in Seps}

Inputs == {sc \o h \o pa \o q : sc \in Schemes, h \in Hosts, pa \in Paths, q \in Queries}

\* the engine is idle while the normalizer is exercised
EngineIdle ==
    /\ memoryCache = <<>>
    /\ loading = [k \in Keys |-> 0]
    /\ failed = [k \in Keys |-> NoFailure]
    /\ dbOpen = FALSE
    /\ idb = [k \in Keys |-> NoEntry]
    /\ now = 0
    /\ promises = <<>>
    /\ calls = <<>>
    /\ revoked = {}
    /\ fetchCount = [k \in Keys |-> 0]
    /\ putRequested = {}
    /\ overlap = {}
    /\ observer = FALSE
    /\ elements = [e \in Elems |-> NewElement]

NormInit ==
    /\ EngineIdle
    /\ url \in Inputs
    /\ converted = <<>>
    /\ convertedFix = <<>>
    /\ keysUsed = {}
    /\ recency = <<>>
    /\ got = NoRead
    /\ prefetch = NoPrefetch
    /\ backoff = NoBackoff
    /\ imgLoads = <<>>
    /\ clearedAt = 0
    /\ fix = NoFix

\* convertDropboxUrl of the loader applied to url, then to its own result
Normalize ==
    /\ Len(converted) < MaxPasses
    /\ converted' = Append(converted,
           convertDropboxUrl(IF converted = <<>> THEN url ELSE converted[Len(converted)]))
    /\ UNCHANGED <<engineVars, url, convertedFix, keysUsed, recency, got,
                   prefetch, backoff, imgLoads,
                   clearedAt, fix>>

\* window.convertDropboxUrl of image-fix.js applied the same way
NormalizeFix ==
    /\ Len(convertedFix) < MaxPasses
    /\ convertedFix' = Append(convertedFix,
           windowConvertDropboxUrl(IF convertedFix = <<>> THEN url
                                   ELSE convertedFix[Len(convertedFix)]))
    /\ UNCHANGED <<engineVars, url, converted, keysUsed, recency, got,
                   prefetch, backoff, imgLoads,
                   clearedAt, fix>>

NormNext == Normalize \/ NormalizeFix

NormSpec == NormInit /\ [][NormNext]_vars

\* --------------------------------------------------- memory cache alone
LruInit ==
    /\ EngineIdle
    /\ url = <<>>
    /\ converted = <<>>
    /\ convertedFix = <<>>
    /\ keysUsed = {}
    /\ recency = <<>>
    /\ got = NoRead
    /\ prefetch = NoPrefetch
    /\ backoff = NoBackoff
    /\ imgLoads = <<>>
    /\ clearedAt = 0
    /\ fix = NoFix

\* the keys of a cache
MemKeys(mc) == {mc[i].key : i \in 1..Len(mc)}

\* key k was accessed: it becomes the most recent of the keys still cached
Touch(rc, mc, k) == SelectSeq(rc, LAMBDA x : x # k /\ x \in MemKeys(mc)) \o <<k>>

\* getFromMemoryCache(k)
LruGet(k) ==
    /\ memoryCache' = getFromMemoryCache(memoryCache, k)
    /\ recency' = IF MemHas(memoryCache, k) THEN Touch(recency, memoryCache', k) ELSE recency
    /\ UNCHANGED <<loading, failed, dbOpen, idb, now, promises, calls, revoked,
                   fetchCount, putRequested, overlap, observer, elements,
                   url, converted, convertedFix, keysUsed, got,
                   prefetch, backoff, imgLoads,
                   clearedAt, fix>>

\* storeInMemoryCache(k, v)
LruPut(k, v) ==
    /\ memoryCache' = storeInMemoryCacheAt(memoryCache, k, v, LruCapacity)
    /\ recency' = Touch(recency, memoryCache', k)
    /\ UNCHANGED <<loading, failed, dbOpen, idb, now, promises, calls, revoked,
                   fetchCount, putRequested, overlap, observer, elements,
                   url, converted, convertedFix, keysUsed, got,
                   prefetch, backoff, imgLoads,
                   clearedAt, fix>>

LruNext ==
    \/ \E k \in LruKeys : LruGet(k)
    \/ \E k \in LruKeys, v \in LruHandles : LruPut(k, v)

LruSpec == LruInit /\ [][LruNext]_vars

\* ------------------------------------------------------- store alone
\* the values of Date.now() in these runs: around 0 and around one retention
\* period
Times == (0..MaxPast) \cup (CACHE_DURATION..(CACHE_DURATION + MaxPast))

StoreInit ==
    /\ memoryCache = <<>>
    /\ loading = [k \in Keys |-> 0]
    /\ failed = [k \in Keys |-> NoFailure]
    /\ dbOpen = TRUE
    /\ idb = [k \in Keys |-> NoEntry]
    /\ now = 0
    /\ promises = <<>>
    /\ calls = <<>>
    /\ revoked = {}
    /\ fetchCount = [k \in Keys |-> 0]
    /\ putRequested = {}
    /\ overlap = {}
    /\ observer = FALSE
    /\ elements = [e \in Elems |-> NewElement]
    /\ url = <<>>
    /\ converted = <<>>
    /\ convertedFix = <<>>
    /\ keysUsed = {}
    /\ recency = <<>>
    /\ got = NoRead
    /\ prefetch = NoPrefetch
    /\ backoff = NoBackoff
    /\ imgLoads = <<>>
    /\ clearedAt = 0
    /\ fix = NoFix

\* storeInIndexedDB(k, blob)
StorePut(k, putThrows) ==
    /\ idb' = storeInIndexedDB(idb, k, "image", putThrows)
    /\ putRequested' = putRequested \cup {k}
    /\ UNCHANGED <<memoryCache, loading, failed, dbOpen, now, promises, calls, revoked,
                   fetchCount, overlap, observer, elements,
                   url, converted, convertedFix, keysUsed, recency, got,
                   prefetch, backoff, imgLoads,
                   clearedAt, fix>>

\* getFromIndexedDB(k), from the call to the result
StoreGet(k, rd) ==
    /\ got' = [key |-> k,
               blob |-> IF StartsFetch(rd) THEN "none" ELSE IdbResult(idb[k], rd = "error"),
               rd |-> rd, at |-> now]
    /\ UNCHANGED <<engineVars, url, converted, convertedFix, keysUsed, recency,
                   prefetch, backoff, imgLoads,
                   clearedAt, fix>>

\* cleanupIndexedDB with every entry deleted
cleanupIndexedDBAll ==
    /\ dbOpen
    /\ idb' = [k \in Keys |-> NoEntry]
    /\ UNCHANGED <<memoryCache, loading, failed, dbOpen, now, promises, calls, revoked,
                   fetchCount, putRequested, overlap, observer, elements, normVars>>

\* cleanupIndexedDB: the cursor over the timestamp index up to
\* Date.now() - CACHE_DURATION deletes every entry it visits, in one
\* transaction.  A sweep whose transaction or index cannot be opened is caught
\* and deletes nothing: it is no step.
cleanupIndexedDB ==
    /\ dbOpen
    /\ idb' = [k \in Keys |->
                 IF idb[k] # NoEntry /\ idb[k].timestamp + CACHE_DURATION <= now
                 THEN NoEntry ELSE idb[k]]
    /\ UNCHANGED <<memoryCache, loading, failed, dbOpen, now, promises, calls, revoked,
                   fetchCount, putRequested, overlap, observer, elements, normVars>>

\* time passes
Advance(t) ==
    /\ t > now
    /\ now' = t
    /\ UNCHANGED <<memoryCache, loading, failed, dbOpen, idb, promises, calls, revoked,
                   fetchCount, putRequested, overlap, observer, elements, normVars>>

StoreNext ==
    \/ \E k \in Keys, putThrows \in BOOLEAN : StorePut(k, putThrows)
    \/ \E k \in Keys, rd \in ReadModes : StoreGet(k, rd)
    \/ cleanupIndexedDB
    \/ \E t \in Times : Advance(t)

StoreSpec == StoreInit /\ [][StoreNext]_vars

\* ------------------------------------------------- keys of the operations
\* the key op has addressed
UsedKey(op) == (CHOOSE r \in keysUsed : r.op = op).key

\* loadImage(url): the key of its in-flight, memory and FailureRecord entries
KeyLoadImage ==
    /\ keysUsed' = keysUsed \cup {[op |-> "loadImage", key |-> convertDropboxUrl(url)]}
    /\ UNCHANGED <<engineVars, url, converted, convertedFix, recency, got,
                   prefetch, backoff, imgLoads,
                   clearedAt, fix>>

\* prefetchImages([url]): the key it filters on, and the key of the load it
\* starts by calling loadImage with the converted URL
KeyPrefetch ==
    /\ keysUsed' = keysUsed \cup
          {[op |-> "prefetchFilter", key |-> convertDropboxUrl(url)],
           [op |-> "prefetchLoad", key |-> convertDropboxUrl(convertDropboxUrl(url))]}
    /\ UNCHANGED <<engineVars, url, converted, convertedFix, recency, got,
                   prefetch, backoff, imgLoads,
                   clearedAt, fix>>

\* enhanceImageElement of an element with src = url: dataset.originalSrc
KeyEnhance ==
    /\ keysUsed' = keysUsed \cup {[op |-> "originalSrc", key |-> convertDropboxUrl(url)]}
    /\ UNCHANGED <<engineVars, url, converted, convertedFix, recency, got,
                   prefetch, backoff, imgLoads,
                   clearedAt, fix>>

\* doLoad of the element: loadImage(fixedSrc)
KeyDoLoad ==
    /\ \E r \in keysUsed : r.op = "originalSrc"
    /\ keysUsed' = keysUsed \cup
          {[op |-> "doLoad", key |-> convertDropboxUrl(UsedKey("originalSrc"))]}
    /\ UNCHANGED <<engineVars, url, converted, convertedFix, recency, got,
                   prefetch, backoff, imgLoads,
                   clearedAt, fix>>

\* retryImage of the element: state.failed.delete(img.dataset.originalSrc)
KeyRetry ==
    /\ \E r \in keysUsed : r.op = "originalSrc"
    /\ keysUsed' = keysUsed \cup {[op |-> "retry", key |-> UsedKey("originalSrc")]}
    /\ UNCHANGED <<engineVars, url, converted, convertedFix, recency, got,
                   prefetch, backoff, imgLoads,
                   clearedAt, fix>>

KeyNext == KeyLoadImage \/ KeyPrefetch \/ KeyEnhance \/ KeyDoLoad \/ KeyRetry

KeySpec == NormInit /\ [][KeyNext]_vars

\* ------------------------------------------------------------ prefetch
\* CONFIG.PREFETCH_BATCH_SIZE
PREFETCH_BATCH_SIZE == 2

\* CONFIG.PREFETCH_DELAY, in ms
PREFETCH_DELAY == 100

\* length of the list handed to prefetchImages
MaxUrls == 5

\* Date.now() advances in steps of PrefetchTick ms, up to MaxPrefetchClock
PrefetchTick == 50

MaxPrefetchClock == 300

\* a URL with two query parameters separated by sep
PrefetchUrl(sep) ==
    <<"https://", "example.com", "/", "img.png", "?", "raw=", "1">> \o sep \o <<"rlkey=k">>

\* the URLs handed to prefetchImages
PrefetchUrls ==
    {<<"https://", "example.com", "/", "img.png">>,
     PrefetchUrl(<<"&">>),
     PrefetchUrl(<<"&", "amp;", "amp;">>)}

\* the keys convertDropboxUrl makes of them, applied once and twice, in a
\* fixed order
PrefetchKeySeq ==
    <<<<"https://", "example.com", "/", "img.png">>,
      PrefetchUrl(<<"&">>),
      PrefetchUrl(<<"&", "amp;">>)>>

PrefetchKeys == {PrefetchKeySeq[i] : i \in 1..Len(PrefetchKeySeq)}

\* the keys of the memory cache, the in-flight map and the FailureRecord map
MapKeys ==
    {memoryCache[i].key : i \in 1..Len(memoryCache)}
        \cup {k \in DOMAIN loading : loading[k] # 0}
        \cup {k \in DOMAIN failed : failed[k] # NoFailure}

\* the maps when prefetchImages is called: every key is absent, cached, in
\* flight or failed, as earlier loads have left it
PrefetchInit ==
    \E st \in [PrefetchKeys -> {"absent", "cached", "loading", "failed"}] :
        /\ Cardinality({k \in PrefetchKeys : st[k] = "cached"}) <= MEMORY_CACHE_MAX
        /\ memoryCache =
              SelectSeq([i \in 1..Len(PrefetchKeySeq) |->
                            [key |-> PrefetchKeySeq[i], val |-> 100 + i]],
                        LAMBDA e : st[e.key] = "cached")
        /\ promises =
              SelectSeq([i \in 1..Len(PrefetchKeySeq) |->
                            NewPromise(PrefetchKeySeq[i], 0, "fetch", NoEntry, FALSE)],
                        LAMBDA q : st[q.key] = "loading")
        /\ loading = [k \in PrefetchKeys |->
                         IF st[k] = "loading"
                         THEN CHOOSE i \in 1..Len(promises) : promises[i].key = k
                         ELSE 0]
        /\ failed = [k \in PrefetchKeys |->
                        IF st[k] = "failed"
                        THEN [attempts |-> MAX_RETRIES + 1, lastAttempt |-> 0,
                              error |-> "NetworkError"]
                        ELSE NoFailure]
        /\ fetchCount = [k \in PrefetchKeys |-> IF st[k] = "loading" THEN 1 ELSE 0]
        /\ dbOpen = FALSE
        /\ idb = [k \in PrefetchKeys |-> NoEntry]
        /\ now = 0
        /\ calls = <<>>
        /\ revoked = {}
        /\ putRequested = {}
        /\ overlap = {}
        /\ observer = FALSE
        /\ elements = [e \in Elems |-> NewElement]
        /\ url = <<>>
        /\ converted = <<>>
        /\ convertedFix = <<>>
        /\ keysUsed = {}
        /\ recency = <<>>
        /\ got = NoRead
        /\ prefetch = NoPrefetch
        /\ backoff = NoBackoff
        /\ imgLoads = <<>>
        /\ clearedAt = 0
        /\ fix = NoFix

\* processNextBatch with the index advanced one short of the batch size
processNextBatchOverlap(pf) ==
    IF pf.index >= Len(pf.fixedUrls)
    THEN [pf EXCEPT !.phase = "done", !.batch = <<>>]
    ELSE [pf EXCEPT !.phase = "idle",
                    !.batch = SubSeq(pf.fixedUrls, pf.index + 1,
                                     IF pf.index + PREFETCH_BATCH_SIZE < Len(pf.fixedUrls)
                                     THEN pf.index + PREFETCH_BATCH_SIZE
                                     ELSE Len(pf.fixedUrls)),
                    !.index = pf.index + PREFETCH_BATCH_SIZE - 1]

\* processNextBatch: the next slice of fixedUrls is handed to
\* requestIdleCallback, or to a timer where there is none, and index moves on
processNextBatch(pf) ==
    IF pf.index >= Len(pf.fixedUrls)
    THEN [pf EXCEPT !.phase = "done", !.batch = <<>>]
    ELSE [pf EXCEPT !.phase = "idle",
                    !.batch = SubSeq(pf.fixedUrls, pf.index + 1,
                                     IF pf.index + PREFETCH_BATCH_SIZE < Len(pf.fixedUrls)
                                     THEN pf.index + PREFETCH_BATCH_SIZE
                                     ELSE Len(pf.fixedUrls)),
                    !.index = pf.index + PREFETCH_BATCH_SIZE]

\* prefetchImages(urls): the converted URLs found in none of the three maps
\* are kept and the first batch is scheduled
prefetchImages(urls) ==
    /\ prefetch.phase = "none"
    /\ LET fixedUrls ==
               SelectSeq([i \in 1..Len(urls) |-> convertDropboxUrl(urls[i])],
                         LAMBDA u : /\ ~MemHas(memoryCache, u)
                                    /\ failed[u] = NoFailure
                                    /\ loading[u] = 0)
       IN prefetch' =
             IF fixedUrls = <<>>
             THEN [NoPrefetch EXCEPT !.phase = "done", !.snap = MapKeys]
             ELSE processNextBatch([NoPrefetch EXCEPT !.fixedUrls = fixedUrls,
                                                      !.snap = MapKeys])
    /\ UNCHANGED <<engineVars, url, converted, convertedFix, keysUsed, recency, got,
                   backoff, imgLoads,
                   clearedAt, fix>>

\* loadImage(u), called by prefetchBatch, on the maps st
PrefetchLoad(st, u) ==
    LET k == convertDropboxUrl(u)
        n == Len(st.promises) + 1
    IN IF st.loading[k] # 0
       THEN [st EXCEPT !.calls = Append(@, [key |-> k, pid |-> st.loading[k],
                                           src |-> "prefetch", afterFail |-> FALSE])]
       ELSE IF MemHas(st.memoryCache, k)
       THEN [st EXCEPT !.memoryCache = getFromMemoryCache(@, k),
                       !.promises = Append(@, ResolvedPromise(k, MemVal(st.memoryCache, k))),
                       !.calls = Append(@, [key |-> k, pid |-> n,
                                           src |-> "prefetch", afterFail |-> FALSE])]
       ELSE [st EXCEPT !.promises = Append(@, NewPromise(k, 0, "fetch", NoEntry, FALSE)),
                       !.loading[k] = n,
                       !.fetchCount[k] = @ + 1,
                       !.calls = Append(@, [key |-> k, pid |-> n,
                                           src |-> "prefetch", afterFail |-> FALSE])]

RECURSIVE PrefetchLoads(_, _)
\* prefetchBatch(batch): loadImage(url) for every url of the batch, in order
PrefetchLoads(st, batch) ==
    IF batch = <<>> THEN st
    ELSE PrefetchLoads(PrefetchLoad(st, Head(batch)), Tail(batch))

\* the idle callback (or the timer that stands in for it): prefetchBatch(batch),
\* then the timer of PREFETCH_DELAY ms for processNextBatch is set
PrefetchIdle ==
    /\ prefetch.phase = "idle"
    /\ LET st == PrefetchLoads([memoryCache |-> memoryCache, loading |-> loading,
                                promises |-> promises, fetchCount |-> fetchCount,
                                calls |-> calls], prefetch.batch)
       IN /\ memoryCache' = st.memoryCache
          /\ loading' = st.loading
          /\ promises' = st.promises
          /\ fetchCount' = st.fetchCount
          /\ calls' = st.calls
    /\ prefetch' = [prefetch EXCEPT !.phase = "delay",
                                    !.issued = Append(@, prefetch.batch),
                                    !.batch = <<>>,
                                    !.lastAt = now]
    /\ UNCHANGED <<failed, dbOpen, idb, now, revoked, putRequested, overlap, observer,
                   elements, url, converted, convertedFix, keysUsed, recency, got,
                   backoff, imgLoads,
                   clearedAt, fix>>

\* the timer set after a batch fires, PREFETCH_DELAY ms later or more
PrefetchTimer ==
    /\ prefetch.phase = "delay"
    /\ now >= prefetch.lastAt + PREFETCH_DELAY
    /\ prefetch' = processNextBatch(prefetch)
    /\ UNCHANGED <<engineVars, url, converted, convertedFix, keysUsed, recency, got,
                   backoff, imgLoads,
                   clearedAt, fix>>

\* time passes while a callback of the prefetch is due
PrefetchClock ==
    /\ prefetch.phase \in {"idle", "delay"}
    /\ now + PrefetchTick <= MaxPrefetchClock
    /\ now' = now + PrefetchTick
    /\ UNCHANGED <<memoryCache, loading, failed, dbOpen, idb, promises, calls, revoked,
                   fetchCount, putRequested, overlap, observer, elements, normVars>>

PrefetchNext ==
    \/ \E urls \in UNION {[1..n -> PrefetchUrls] : n \in 0..MaxUrls} : prefetchImages(urls)
    \/ PrefetchIdle
    \/ PrefetchTimer
    \/ PrefetchClock

PrefetchSpec == PrefetchInit /\ [][PrefetchNext]_vars

\* ------------------------------------------------ visibility scheduling
\* image elements are enhanced, become visible and are retried, and their
\* loads run
VisNext ==
    \/ \E e \in Elems, rd \in ReadModes : enhanceImageElement(e, rd)
    \/ \E e \in Elems, rd \in ReadModes : Intersect(e, rd)
    \/ \E e \in Elems, rd \in ReadModes : retryImage(e, rd)
    \/ \E p \in 1..MaxPromises : Complete(p)

VisSpec == Init /\ [][VisNext]_vars

\* -------------------------------------------------------------- backoff
\* CONFIG.BASE_RETRY_DELAY, in ms
BASE_RETRY_DELAY == 1000

\* CONFIG.MAX_RETRY_DELAY, in ms
MAX_RETRY_DELAY == 10000

\* CONFIG.MAX_RETRIES as the source sets it: failed attempts 0 .. 2 are
\* followed by a delay
ConfiguredRetries == 3

\* attempt numbers handed to getRetryDelay: 0 .. MaxAttempt
MaxAttempt == 4

\* Math.random() returns r / RandomSteps for r in 0 .. RandomSteps - 1
RandomSteps == 20

RECURSIVE Pow2(_)
\* Math.pow(2, n)
Pow2(n) == IF n = 0 THEN 1 ELSE 2 * Pow2(n - 1)

\* getRetryDelay with no cap on the result
getRetryDelayNoCap(attempt, r) ==
    LET exponentialDelay == BASE_RETRY_DELAY * Pow2(attempt)
        jitter == (r * 3 * exponentialDelay) \div (10 * RandomSteps)
    IN exponentialDelay + jitter

\* getRetryDelay(attempt) when Math.random() returns r / RandomSteps
getRetryDelay(attempt, r) ==
    LET exponentialDelay == BASE_RETRY_DELAY * Pow2(attempt)
        jitter == (r * 3 * exponentialDelay) \div (10 * RandomSteps)
    IN IF exponentialDelay + jitter <= MAX_RETRY_DELAY
       THEN exponentialDelay + jitter
       ELSE MAX_RETRY_DELAY

BackoffInit ==
    /\ EngineIdle
    /\ url = <<>>
    /\ converted = <<>>
    /\ convertedFix = <<>>
    /\ keysUsed = {}
    /\ recency = <<>>
    /\ got = NoRead
    /\ prefetch = NoPrefetch
    /\ backoff \in [attempt : 0..MaxAttempt, random : 0..(RandomSteps - 1), delay : {0}]
    /\ imgLoads = <<>>
    /\ clearedAt = 0
    /\ fix = NoFix

\* const delay = getRetryDelay(attempt)
CallGetRetryDelay ==
    /\ backoff.delay = 0
    /\ backoff' = [backoff EXCEPT !.delay = getRetryDelay(backoff.attempt, backoff.random)]
    /\ UNCHANGED <<engineVars, url, converted, convertedFix, keysUsed, recency, got,
                   prefetch, imgLoads,
                   clearedAt, fix>>

BackoffNext == CallGetRetryDelay

BackoffSpec == BackoffInit /\ [][BackoffNext]_vars

\* ------------------------------------------------------ loadImageElement
\* number of calls of loadImageElement made from outside
MaxImgCalls == 2

\* promises loadImageElement can make in a run
MaxImgPromises == MaxImgCalls * (MAX_RETRIES + 1)

\* a promise of loadImageElement: the image is loading
NewImgLoad(k, attempt) ==
    [key |-> k, attempt |-> attempt, pc |-> "loading", err |-> "none", follow |-> 0]

RECURSIVE ImgRoot(_, _)
\* the promise whose settlement settles promise i (.then(resolve).catch(reject))
ImgRoot(ls, i) == IF ls[i].pc = "chained" THEN ImgRoot(ls, ls[i].follow) ELSE i

\* promise q settles, and with it every promise chained to it
ImgSettle(ls, q, pc, err) ==
    [i \in 1..Len(ls) |->
        IF ImgRoot(ls, i) = q
        THEN [ls[i] EXCEPT !.pc = pc, !.err = err, !.follow = 0]
        ELSE ls[i]]

ElemLoadInit ==
    /\ EngineIdle
    /\ url = <<>>
    /\ converted = <<>>
    /\ convertedFix = <<>>
    /\ keysUsed = {}
    /\ recency = <<>>
    /\ got = NoRead
    /\ prefetch = NoPrefetch
    /\ backoff = NoBackoff
    /\ imgLoads = <<>>
    /\ clearedAt = 0
    /\ fix = NoFix

\* loadImageElement(url) called from outside (attempt = 0)
loadImageElement(k) ==
    /\ Cardinality({i \in 1..Len(imgLoads) : imgLoads[i].attempt = 0}) < MaxImgCalls
    /\ imgLoads' = Append(imgLoads, NewImgLoad(k, 0))
    /\ UNCHANGED <<engineVars, url, converted, convertedFix, keysUsed, recency, got,
                   prefetch, backoff,
                   clearedAt, fix>>

\* img.onload: the timer is cleared and img.decode() is awaited
ImgOnload(i) ==
    /\ i \in 1..Len(imgLoads)
    /\ imgLoads[i].pc = "loading"
    /\ imgLoads' = [imgLoads EXCEPT ![i].pc = "decoding"]
    /\ UNCHANGED <<engineVars, url, converted, convertedFix, keysUsed, recency, got,
                   prefetch, backoff,
                   clearedAt, fix>>

\* img.decode() settles either way: the FailureRecord of the key is deleted
\* and the promise resolves
ImgDecoded(i) ==
    /\ i \in 1..Len(imgLoads)
    /\ imgLoads[i].pc = "decoding"
    /\ failed' = [failed EXCEPT ![imgLoads[i].key] = NoFailure]
    /\ imgLoads' = ImgSettle(imgLoads, i, "resolved", "none")
    /\ UNCHANGED <<memoryCache, loading, dbOpen, idb, now, promises, calls, revoked,
                   fetchCount, putRequested, overlap, observer, elements,
                   url, converted, convertedFix, keysUsed, recency, got,
                   prefetch, backoff,
                   clearedAt, fix>>

\* img.onerror: a retry is scheduled, or, after the last attempt, the
\* FailureRecord (attempts, lastAttempt) is set and the promise rejects
ImgOnerror(i) ==
    /\ i \in 1..Len(imgLoads)
    /\ imgLoads[i].pc = "loading"
    /\ IF imgLoads[i].attempt < MAX_RETRIES
       THEN /\ imgLoads' = [imgLoads EXCEPT ![i].pc = "backoff"]
            /\ UNCHANGED failed
       ELSE /\ failed' = [failed EXCEPT ![imgLoads[i].key] =
                             [attempts |-> imgLoads[i].attempt + 1, lastAttempt |-> now,
                              error |-> "none"]]
            /\ imgLoads' = ImgSettle(imgLoads, i, "rejected", "Load failed")
    /\ UNCHANGED <<memoryCache, loading, dbOpen, idb, now, promises, calls, revoked,
                   fetchCount, putRequested, overlap, observer, elements,
                   url, converted, convertedFix, keysUsed, recency, got,
                   prefetch, backoff,
                   clearedAt, fix>>

\* the LOAD_TIMEOUT timer fires: a retry is scheduled, or, after the last
\* attempt, the promise rejects
ImgTimeout(i) ==
    /\ i \in 1..Len(imgLoads)
    /\ imgLoads[i].pc = "loading"
    /\ imgLoads' = IF imgLoads[i].attempt < MAX_RETRIES
                   THEN [imgLoads EXCEPT ![i].pc = "backoff"]
                   ELSE ImgSettle(imgLoads, i, "rejected", "Timeout")
    /\ UNCHANGED <<engineVars, url, converted, convertedFix, keysUsed, recency, got,
                   prefetch, backoff,
                   clearedAt, fix>>

\* the backoff timer fires:
\* loadImageElement(url, attempt + 1).then(resolve).catch(reject)
ImgRetryTimer(i) ==
    /\ i \in 1..Len(imgLoads)
    /\ imgLoads[i].pc = "backoff"
    /\ imgLoads' = Append([imgLoads EXCEPT ![i].pc = "chained",
                                           ![i].follow = Len(imgLoads) + 1],
                          NewImgLoad(imgLoads[i].key, imgLoads[i].attempt + 1))
    /\ UNCHANGED <<engineVars, url, converted, convertedFix, keysUsed, recency, got,
                   prefetch, backoff,
                   clearedAt, fix>>

ElemLoadNext ==
    \/ \E k \in Keys : loadImageElement(k)
    \/ \E i \in 1..MaxImgPromises : ImgOnload(i)
    \/ \E i \in 1..MaxImgPromises : ImgDecoded(i)
    \/ \E i \in 1..MaxImgPromises : ImgOnerror(i)
    \/ \E i \in 1..MaxImgPromises : ImgTimeout(i)
    \/ \E i \in 1..MaxImgPromises : ImgRetryTimer(i)

ElemLoadSpec == ElemLoadInit /\ [][ElemLoadNext]_vars

\* ------------------------------------------------------- clearing the cache
\* clearCache, with the number of promises made so far remembered
ClearCacheMarked ==
    /\ clearedAt' = Len(promises)
    /\ UNCHANGED <<url, converted, convertedFix, keysUsed, recency, got,
                   prefetch, backoff, imgLoads, fix>>
    /\ revoked' = revoked \cup {memoryCache[i].val : i \in 1..Len(memoryCache)}
    /\ memoryCache' = <<>>
    /\ loading' = [k \in Keys |-> 0]
    /\ failed' = [k \in Keys |-> NoFailure]
    /\ idb' = IF dbOpen THEN [k \in Keys |-> NoEntry] ELSE idb
    /\ UNCHANGED <<dbOpen, now, promises, calls, fetchCount,
                   putRequested, overlap, observer, elements>>

\* calls of loadImage, their callbacks and calls of clearCache
ClearNext ==
    \/ \E k \in Keys, rd \in ReadModes : CallLoadImage(k, rd)
    \/ \E p \in 1..MaxPromises : Complete(p)
    \/ ClearCacheMarked

ClearSpec == Init /\ [][ClearNext]_vars

\* ------------------------------------------------------- object URL handles
\* CONFIG.MEMORY_CACHE_MAX in the runs that follow the object URLs
HandleCapacity == 2

\* no store is open and no observer exists: every load goes to the network
HandleInit == Init /\ ~dbOpen /\ ~observer

\* response.blob() resolves with an image and the memory cache holds up to
\* HandleCapacity entries
HandleBlobDone(p) ==
    /\ UNCHANGED normVars
    /\ p \in 1..Len(promises)
    /\ promises[p].pc = "blob"
    /\ LET k == promises[p].key
           h == p
       IN /\ idb' = storeInIndexedDB(idb, k, "image", FALSE)
          /\ putRequested' = putRequested \cup {k}
          /\ revoked' = revoked \cup
                 {memoryCache[i].val : i \in 1..EvictCountAt(memoryCache, HandleCapacity)}
          /\ memoryCache' = storeInMemoryCacheAt(memoryCache, k, h, HandleCapacity)
          /\ failed' = [failed EXCEPT ![k] = NoFailure]
          /\ loading' = [loading EXCEPT ![k] = 0]
          /\ promises' = SettleAll(promises, p, "resolved", h, "none")
    /\ UNCHANGED <<dbOpen, now, calls, fetchCount, overlap, observer, elements>>

\* loads that succeed, and calls of clearCache
HandleNext ==
    \/ \E k \in Keys : CallLoadImage(k, "ok")
    \/ \E p \in 1..MaxPromises : FetchResponse(p, TRUE, FALSE)
    \/ \E p \in 1..MaxPromises : HandleBlobDone(p)
    \/ ClearCacheMarked

HandleSpec == HandleInit /\ [][HandleNext]_vars

\* --------------------------------------------- prefetch while loads fail
\* length of the list handed to prefetchImages in these runs: one batch and
\* one URL more
MaxRaceUrls == PREFETCH_BATCH_SIZE + 1

\* the URLs handed to prefetchImages in these runs: those convertDropboxUrl
\* leaves as they are
RaceUrls == {u \in PrefetchUrls : convertDropboxUrl(u) = u}

\* a prefetch runs while the fetches of the loads fail and are retried
PrefetchRaceNext ==
    \/ \E urls \in UNION {[1..n -> RaceUrls] : n \in 0..MaxRaceUrls} : prefetchImages(urls)
    \/ PrefetchIdle
    \/ PrefetchTimer
    \/ PrefetchClock
    \/ \E p \in 1..MaxPromises : FetchError(p)
    \/ \E p \in 1..MaxPromises : RetryTimer(p, "ok")

\* at most one load is in flight, no key is cached and no key has failed
\* when the run starts
PrefetchRaceInit ==
    /\ PrefetchInit
    /\ Len(promises) <= 1
    /\ memoryCache = <<>>
    /\ \A k \in PrefetchKeys : failed[k] = NoFailure

PrefetchRaceSpec == PrefetchRaceInit /\ [][PrefetchRaceNext]_vars

\* ------------------------------------------------ image-fix.js: the loader
\* CONFIG.MAX_RETRIES of image-fix.js
FIX_MAX_RETRIES == 3

\* calls of loadImageWithRetry in one run
MaxFixCalls == 3

FixInit == Init /\ ~dbOpen /\ ~observer

\* the steps of the engine, the normalizer and the other runs do not occur
FixOthers == UNCHANGED <<engineVars, url, converted, convertedFix, keysUsed, recency,
                         got, prefetch, backoff, imgLoads, clearedAt>>

\* the call of loadImageWithRetry that starts an attempt sequence
FixLoad(u) ==
    [url |-> u, kind |-> "load", pc |-> "attempt", left |-> FIX_MAX_RETRIES,
     attempts |-> 1, watched |-> 0, img |-> 0]

\* loadImageWithRetry(u): a cached image resolves the call at once; a URL in
\* loadingImages makes the call poll every 100 ms; otherwise the URL is added
\* to loadingImages and the first attempt starts
loadImageWithRetry(u) ==
    /\ Len(fix.calls) < MaxFixCalls
    /\ LET c == Len(fix.calls) + 1
       IN fix' =
            IF fix.cache[u] # 0
            THEN [fix EXCEPT !.calls = Append(@, [FixLoad(u) EXCEPT
                                 !.kind = "hit", !.pc = "resolved", !.left = 0,
                                 !.attempts = 0, !.img = fix.cache[u]])]
            ELSE IF fix.loading[u] # 0
            THEN [fix EXCEPT !.calls = Append(@, [FixLoad(u) EXCEPT
                                 !.kind = "wait", !.pc = "polling", !.left = 0,
                                 !.attempts = 0, !.watched = fix.loading[u]])]
            ELSE [fix EXCEPT !.loading[u] = c, !.calls = Append(@, FixLoad(u))]
    /\ FixOthers

\* img.onload of the running attempt of call c
FixOnload(c) ==
    /\ c \in 1..Len(fix.calls)
    /\ fix.calls[c].kind = "load" /\ fix.calls[c].pc = "attempt"
    /\ LET u == fix.calls[c].url
       IN fix' = [fix EXCEPT !.loading[u] = 0,
                             !.cache[u] = c,
                             !.failed = @ \ {u},
                             !.calls[c].pc = "resolved",
                             !.calls[c].img = c]
    /\ FixOthers

\* retries are scheduled with the URL taken out of loadingImages
FixFailDropsEntry(c) ==
    /\ c \in 1..Len(fix.calls)
    /\ fix.calls[c].kind = "load" /\ fix.calls[c].pc = "attempt"
    /\ LET u == fix.calls[c].url
       IN fix' = IF fix.calls[c].left > 1
                 THEN [fix EXCEPT !.loading[u] = 0, !.calls[c].pc = "delay"]
                 ELSE [fix EXCEPT !.loading[u] = 0,
                                  !.failed = @ \cup {u},
                                  !.calls[c].pc = "rejected"]
    /\ FixOthers

\* img.onerror of the running attempt of call c, or its LOAD_TIMEOUT timer:
\* a retry is scheduled while attempts are left, otherwise the URL leaves
\* loadingImages, enters failedImages and the call rejects
FixFail(c) ==
    /\ c \in 1..Len(fix.calls)
    /\ fix.calls[c].kind = "load" /\ fix.calls[c].pc = "attempt"
    /\ LET u == fix.calls[c].url
       IN fix' = IF fix.calls[c].left > 1
                 THEN [fix EXCEPT !.calls[c].pc = "delay"]
                 ELSE [fix EXCEPT !.loading[u] = 0,
                                  !.failed = @ \cup {u},
                                  !.calls[c].pc = "rejected"]
    /\ FixOthers

\* the RETRY_DELAY timer of call c fires: attemptLoad(attemptsLeft - 1)
FixRetry(c) ==
    /\ c \in 1..Len(fix.calls)
    /\ fix.calls[c].pc = "delay"
    /\ fix' = [fix EXCEPT !.calls[c].pc = "attempt",
                          !.calls[c].left = @ - 1,
                          !.calls[c].attempts = @ + 1]
    /\ FixOthers

\* the 100 ms interval of the waiting call c ticks and finds the URL gone from
\* loadingImages: the call resolves with the cached image or rejects.  A tick
\* that finds the URL in loadingImages changes nothing.
FixPoll(c) ==
    /\ c \in 1..Len(fix.calls)
    /\ fix.calls[c].kind = "wait" /\ fix.calls[c].pc = "polling"
    /\ LET u == fix.calls[c].url
       IN /\ fix.loading[u] = 0
          /\ fix' = IF fix.cache[u] # 0
                    THEN [fix EXCEPT !.calls[c].pc = "resolved",
                                     !.calls[c].img = fix.cache[u]]
                    ELSE [fix EXCEPT !.calls[c].pc = "rejected"]
    /\ FixOthers

\* clearImageCache()
clearImageCache ==
    /\ fix' = [fix EXCEPT !.cache = [u \in FixUrls |-> 0],
                          !.failed = {},
                          !.loading = [u \in FixUrls |-> 0]]
    /\ FixOthers

\* calls of loadImageWithRetry and their callbacks
FixLoadNext ==
    \/ \E u \in FixUrls : loadImageWithRetry(u)
    \/ \E c \in 1..MaxFixCalls : FixOnload(c)
    \/ \E c \in 1..MaxFixCalls : FixFail(c)
    \/ \E c \in 1..MaxFixCalls : FixRetry(c)
    \/ \E c \in 1..MaxFixCalls : FixPoll(c)

FixLoadSpec == FixInit /\ [][FixLoadNext]_vars

\* the same with calls of clearImageCache
FixNext ==
    \/ FixLoadNext
    \/ clearImageCache

FixSpec == FixInit /\ [][FixNext]_vars

\* ------------------------------------------------------------------ claims
\* the step is an invocation of loadImage from outside, recorded last in calls
IsCall == Len(calls') = Len(calls) + 1

LastCall == calls'[Len(calls')]

\* promises of key k whose fetch was issued and has not been caught or finished
Fetching(k) ==
    {p \in 1..Len(promises) :
        promises[p].key = k /\ promises[p].pc \in {"fetch", "blob", "stalled"}}

HasCall(k) == \E c \in 1..Len(calls) : calls[c].key = k

FirstCall(k) ==
    CHOOSE c \in 1..Len(calls) :
        calls[c].key = k /\ \A d \in 1..(c - 1) : calls[d].key # k

FirstPending(k) ==
    CHOOSE c \in PendingCalls(promises, k) : \A d \in PendingCalls(promises, k) : c <= d

\* C1: a loadImage call for a key that an earlier call is still waiting for,
\* with the key in neither cache tier, starts no load and no fetch of its own:
\* it is handed a promise that settles with the promise of the first pending call.
C1_Dedup ==
    [][IsCall =>
        LET k == LastCall.key
        IN (PendingCalls(promises, k) # {} /\ ~MemHas(memoryCache, k) /\ idb[k] = NoEntry) =>
              /\ Len(promises') = Len(promises)
              /\ fetchCount' = fetchCount
              /\ Root(promises', LastCall.pid) =
                    Root(promises', calls[FirstPending(k)].pid)]_vars

\* C2: in every reachable state at most one fetch is in flight for a key.
C2_OneFetchPerKey == \A k \in Keys : Cardinality(Fetching(k)) <= 1

\* C3: two calls of one key that were pending at the same time end alike:
\* both resolve with the same handle or both reject.
C3_SameOutcome ==
    \A pr \in overlap :
        LET a == promises[calls[pr[1]].pid]
            b == promises[calls[pr[2]].pid]
        IN (a.pc \in Settled /\ b.pc \in Settled) => (a.pc = b.pc /\ a.val = b.val)

\* C4: when the first load of a key that is in neither cache tier settles and
\* no attempt for the key has succeeded, it settles as failed and exactly
\* MAX_RETRIES + 1 fetches have been issued for the key, whatever other calls
\* for the key arrived meanwhile.
C4_RetryBound ==
    [][\A k \in Keys :
        (/\ HasCall(k)
         /\ idb[k] = NoEntry
         /\ \A i \in 1..Len(promises') :
               promises'[i].key = k => promises'[i].pc # "resolved"
         /\ promises[calls[FirstCall(k)].pid].pc \in Pending
         /\ promises'[calls[FirstCall(k)].pid].pc \in Settled)
        => (/\ promises'[calls[FirstCall(k)].pid].pc = "rejected"
            /\ fetchCount'[k] = MAX_RETRIES + 1)]_vars

\* C5: while a promise handed out for a key is pending, backoff delays
\* included, the in-flight map has an entry for the key.
C5_EntryUntilSettled ==
    \A c \in 1..Len(calls) :
        promises[calls[c].pid].pc \in Pending => loading[calls[c].key] # 0

\* C6: every promise loadImage has created eventually resolves or rejects.
C6_EverySettles ==
    \A i \in 1..MaxPromises :
        (Len(promises) >= i) ~> (Len(promises) >= i /\ promises[i].pc \in Settled)

\* the entry promise p reads from the store is present and unexpired
SnapFresh(p) ==
    /\ promises[p].snap # NoEntry
    /\ now - promises[p].snap.timestamp < CACHE_DURATION

\* a call of loadImage for a key in the memory cache reads no store and
\* issues no fetch
MemoryHitNoWork ==
    (IsCall /\ MemHas(memoryCache, LastCall.key)) =>
        /\ fetchCount' = fetchCount
        /\ \A i \in (Len(promises) + 1)..Len(promises') : promises'[i].pc = "resolved"

\* C7 (as claimed): a call for a key in memory reads no store and issues no
\* fetch, and a load of a key that is absent from memory and present,
\* unexpired, in the store issues no fetch.
C7_FallbackOrder ==
    [][/\ MemoryHitNoWork
       /\ (IsCall /\ LoadBranch(LastCall.key) = "new"
               /\ idb[LastCall.key] # NoEntry
               /\ now - idb[LastCall.key].timestamp < CACHE_DURATION)
            => fetchCount' = fetchCount
       /\ \A p \in 1..Len(promises) :
            (promises[p].pc = "idb" /\ SnapFresh(p)) => promises'[p].pc # "fetch"]_vars

\* C7 (amended): a call for a key in memory reads no store and issues no
\* fetch, and a load whose store read succeeds and finds the entry present
\* and unexpired resolves from it without issuing a fetch.
C7_FallbackOrderOnRead ==
    [][/\ MemoryHitNoWork
       /\ \A p \in 1..Len(promises) :
            (promises[p].pc = "idb" /\ SnapFresh(p) /\ ~promises[p].readErr) =>
                /\ promises'[p].pc \in {"idb", "resolved"}
                /\ promises'[p].pc = "resolved" => fetchCount' = fetchCount]_vars

\* a load resolved from the store with no fetch for its key, and a later call
\* was answered from memory with the handle of that load
C7_Witness ==
    \E i, j \in 1..Len(promises) :
        /\ promises[j].pc = "resolved" /\ promises[j].val = j
        /\ fetchCount[promises[j].key] = 0
        /\ promises[i].pc = "resolved" /\ promises[i].val = j /\ i # j
        /\ promises[i].key = promises[j].key

\* C8: when a load resolves through a network fetch, its key is in the memory
\* cache with the handle it resolved with, the write to the store has been
\* requested, and the next loadImage call for the key is answered from memory
\* with that handle, without a fetch.
C8_WriteBack ==
    [][\A p \in 1..Len(promises) :
        (promises[p].pc = "blob" /\ promises'[p].pc = "resolved") =>
            LET k == promises[p].key
            IN /\ MemHas(memoryCache', k)
               /\ MemVal(memoryCache', k) = promises'[p].val
               /\ k \in putRequested'
               /\ (idb'[k] = [blob |-> "image", timestamp |-> now] \/ idb' = idb)
               /\ loading'[k] = 0
               /\ LoadBranch(k)' = "hit"]_vars

\* a load resolved through a fetch and its handle is in the memory cache
C8_Witness ==
    \E p \in 1..Len(promises) :
        /\ promises[p].pc = "resolved" /\ promises[p].val = p
        /\ promises[p].key \in putRequested
        /\ fetchCount[promises[p].key] > 0
        /\ MemHas(memoryCache, promises[p].key)
        /\ MemVal(memoryCache, promises[p].key) = p

\* C9: whenever a promise of loadImage resolves, by whichever path, the key
\* has no FailureRecord afterwards.
C9_FailureCleared ==
    [][\A i \in 1..Len(promises') :
        (promises'[i].pc = "resolved" /\ (i > Len(promises) \/ promises[i].pc # "resolved"))
            => failed'[promises'[i].key] = NoFailure]_vars

\* C10: a manual retry leaves no FailureRecord and does not join a load in
\* flight: it gets a promise of its own, made with attempt 0.
C10_RetryFresh ==
    [][(IsCall /\ LastCall.src = "retry") =>
        /\ failed'[LastCall.key] = NoFailure
        /\ LastCall.pid > Len(promises)
        /\ promises'[LastCall.pid].attempt = 0]_vars

\* the call of this step is a loadImage or retry call for a key one of whose
\* loads has settled as failed
CallAfterFailure == IsCall /\ LastCall.afterFail

\* when a network attempt succeeds, every call waiting on it resolves and the
\* key has no FailureRecord
NetworkSuccessResolves ==
    \A p \in 1..Len(promises) :
        (promises[p].pc = "blob" /\ promises'[p].pc = "resolved") =>
            /\ failed'[promises[p].key] = NoFailure
            /\ \A c \in 1..Len(calls) :
                  Root(promises, calls[c].pid) = p => promises'[calls[c].pid].pc = "resolved"

\* C11 (as claimed): after a load of a key has settled as failed, a following
\* retry or loadImage call for the key starts a new network attempt sequence:
\* it gets a promise of its own, made with attempt 0, that goes on to fetch;
\* and when the network succeeds the call resolves and the key has no
\* FailureRecord.
C11_NoPoisoning ==
    [][/\ CallAfterFailure =>
            /\ LastCall.pid > Len(promises)
            /\ promises'[LastCall.pid].attempt = 0
            /\ promises'[LastCall.pid].pc \in {"idb", "fetch"}
       /\ \A c \in 1..Len(calls) :
            (calls[c].afterFail /\ promises[calls[c].pid].pc = "idb") =>
                promises'[calls[c].pid].pc \in {"idb", "fetch"}
       /\ NetworkSuccessResolves]_vars

\* C11 (amended): after a load of a key has settled as failed, a following
\* retry or loadImage call for the key is not answered with the failure: it
\* joins a load that is still in flight, is answered from the memory cache, or
\* starts a new attempt sequence with attempt 0 that reads the store or
\* fetches; and when a network attempt succeeds every call waiting on it
\* resolves and the key has no FailureRecord.
C11_NotSuppressed ==
    [][/\ CallAfterFailure =>
            LET k == LastCall.key
                q == promises'[LastCall.pid]
            IN CASE LoadBranch(k) = "join" ->
                      /\ LastCall.pid = loading[k]
                      /\ q.pc \in {"idb", "fetch", "blob", "stalled"}
                 [] LoadBranch(k) = "hit" ->
                      /\ q.pc = "resolved"
                      /\ q.val = MemVal(memoryCache, k)
                 [] LoadBranch(k) = "new" ->
                      /\ LastCall.pid > Len(promises)
                      /\ q.attempt = 0
                      /\ q.pc \in {"idb", "fetch"}
                      /\ loading'[k] = LastCall.pid
       /\ NetworkSuccessResolves]_vars

\* a call made after a failure of its key resolved through a network fetch
\* of its own attempt sequence, and the key has no FailureRecord
C11_Witness ==
    \E c \in 1..Len(calls) :
        /\ calls[c].afterFail
        /\ promises[calls[c].pid].pc = "resolved"
        /\ promises[calls[c].pid].val >= calls[c].pid
        /\ calls[c].key \in putRequested
        /\ failed[calls[c].key] = NoFailure

\* C12: when the attempt that follows MAX_RETRIES failed attempts of a load
\* succeeds, the load (the promise made with attempt 0 and every retry promise
\* in between) resolves with the handle of that attempt, and the key has no
\* FailureRecord once it has settled.
C12_RetryThenSuccess ==
    [][\A p \in 1..Len(promises) :
        (/\ promises[p].attempt = MAX_RETRIES
         /\ promises[p].pc = "blob"
         /\ promises'[p].pc = "resolved") =>
            /\ failed'[promises[p].key] = NoFailure
            /\ \E i \in 1..Len(promises) :
                  promises[i].attempt = 0 /\ Root(promises, i) = p
            /\ \A i \in 1..Len(promises) :
                  Root(promises, i) = p =>
                      /\ promises'[i].pc = "resolved"
                      /\ promises'[i].val = promises'[p].val]_vars

\* a load resolved with the handle of its last permitted attempt, after
\* MAX_RETRIES + 1 fetches, and the key has no FailureRecord
C12_Witness ==
    \E i, p \in 1..Len(promises) :
        /\ promises[i].attempt = 0 /\ promises[p].attempt = MAX_RETRIES
        /\ promises[i].key = promises[p].key
        /\ promises[p].pc = "resolved" /\ promises[p].val = p
        /\ promises[i].pc = "resolved" /\ promises[i].val = p
        /\ promises[p].key \in putRequested
        /\ fetchCount[promises[p].key] = MAX_RETRIES + 1
        /\ failed[promises[p].key] = NoFailure

\* the promises that settle when promise p settles: p and those chained to it
Chain(p) == {i \in 1..Len(promises) : Root(promises, i) = p}

\* the error kind of the attempt of promise p that fails in this step
FailedKind(p) ==
    CASE FetchTimeout(p) -> "Timeout"
      [] FetchError(p) -> "NetworkError"
      [] BlobError(p) -> "NetworkError"
      [] (\E b \in BOOLEAN : FetchResponse(p, FALSE, b)) -> "BadStatus"
      [] (\E t \in BOOLEAN : BlobDone(p, "other", t)) -> "InvalidContentType"
      [] OTHER -> "none"

\* C13: an attempt that fails, with whichever error kind, is retried while
\* its attempt number is below MAX_RETRIES and rejects otherwise; a promise
\* rejects only when at least MAX_RETRIES + 1 attempts of its load have
\* failed, it carries the error kind of the attempt that failed last, and a
\* settled promise never changes again.
C13_ErrorsAtEnd ==
    [][/\ \A p \in 1..Len(promises) :
            (promises[p].pc \in {"fetch", "blob"} /\ FailedKind(p) # "none") =>
                IF promises[p].attempt < MAX_RETRIES
                THEN /\ promises'[p].pc = "backoff"
                     /\ \A i \in Chain(p) : promises'[i].pc \in Pending
                     /\ failed' = failed
                ELSE /\ Cardinality(Chain(p)) >= MAX_RETRIES + 1
                     /\ \A i \in Chain(p) :
                           /\ promises'[i].pc = "rejected"
                           /\ promises'[i].err = FailedKind(p)
       /\ \A i \in 1..Len(promises) :
            /\ promises'[i].pc = "rejected" /\ promises[i].pc # "rejected" =>
                  \E p \in 1..Len(promises) :
                      /\ i \in Chain(p)
                      /\ promises[p].pc \in {"fetch", "blob"}
                      /\ promises[p].attempt = MAX_RETRIES
                      /\ FailedKind(p) # "none"
            /\ promises[i].pc \in Settled => promises'[i] = promises[i]]_vars

\* two loads were rejected after MAX_RETRIES + 1 failed attempts each, one of
\* them with a wrong content type last and the other with a timeout last
C13_Witness ==
    \E i, j \in 1..Len(promises) :
        /\ promises[i].attempt = 0 /\ promises[i].pc = "rejected"
        /\ promises[i].err = "InvalidContentType"
        /\ fetchCount[promises[i].key] = MAX_RETRIES + 1
        /\ promises[j].attempt = 0 /\ promises[j].pc = "rejected"
        /\ promises[j].err = "Timeout"
        /\ fetchCount[promises[j].key] = MAX_RETRIES + 1

\* every handle in the memory cache or handed to a caller was made by a
\* promise whose own attempt or store read succeeded
HandlesFromSuccess ==
    /\ \A i \in 1..Len(memoryCache) :
          /\ promises[memoryCache[i].val].pc = "resolved"
          /\ promises[memoryCache[i].val].val = memoryCache[i].val
    /\ \A i \in 1..Len(promises) :
          promises[i].pc = "resolved" =>
              /\ promises[promises[i].val].pc = "resolved"
              /\ promises[promises[i].val].val = promises[i].val

\* C14: a response with a non-success status or a body that is not of an
\* image media type is a failed attempt: the step writes nothing to the
\* memory cache or the store, requests no store write, resolves no promise,
\* and the promise of the attempt goes to its backoff or rejects; no handle
\* in the cache or in a resolved promise comes from a failed attempt.
C14_ContentTypeCheck ==
    [][/\ \A p \in 1..Len(promises) :
            ((\E b \in BOOLEAN : FetchResponse(p, FALSE, b))
                \/ (\E t \in BOOLEAN : BlobDone(p, "other", t))) =>
                /\ memoryCache' = memoryCache
                /\ idb' = idb
                /\ putRequested' = putRequested
                /\ promises'[p].pc \in {"backoff", "rejected"}
                /\ promises'[p].val = 0
                /\ \A i \in 1..Len(promises) :
                      promises'[i].pc = "resolved" => promises[i].pc = "resolved"
       /\ HandlesFromSuccess']_vars

\* a load was rejected for a body of the wrong media type and its key is in
\* neither cache tier and no store write was requested for it
C14_Witness ==
    \E i \in 1..Len(promises) :
        /\ promises[i].pc = "rejected" /\ promises[i].err = "InvalidContentType"
        /\ ~MemHas(memoryCache, promises[i].key)
        /\ idb[promises[i].key] = NoEntry
        /\ promises[i].key \notin putRequested

\* C15: applying the normalizer to its own result changes nothing, for the
\* normalizer of the loader and for the one of image-fix.js.
C15_Idempotent ==
    /\ \A i \in 2..Len(converted) : converted[i] = converted[1]
    /\ \A i \in 2..Len(convertedFix) : convertedFix[i] = convertedFix[1]

\* the host of a URL string
HostOf(s) == IF s[2] = "www." THEN <<s[2], s[3]>> ELSE <<s[2]>>

\* the first piece of the path of a URL string
PathHead(s) == s[2 + Len(HostOf(s))]

ShareHosts == {<<"www.", "dropbox.com">>, <<"dropbox.com">>}

IsLegacyShare(s) == HostOf(s) \in ShareHosts /\ PathHead(s) = "/s/"

IsNewShare(s) == HostOf(s) \in ShareHosts /\ PathHead(s) = "/scl/"

\* the query parameters of a URL string
QueryParams(s) == SplitParams(UrlQuery(s), <<>>)

\* the URL has no download-toggle parameter
NoDl(s) == \A i \in 1..Len(QueryParams(s)) : ParamName(QueryParams(s)[i]) # "dl"

\* the URL has the raw-render parameter, set to enabled
RawEnabled(s) ==
    /\ \E i \in 1..Len(QueryParams(s)) : ParamName(QueryParams(s)[i]) = "raw"
    /\ \A i \in 1..Len(QueryParams(s)) :
          ParamName(QueryParams(s)[i]) = "raw" => QueryParams(s)[i] = <<"raw=", "1">>

\* the row of the correctness table for input u and result r
TableRow(u, r) ==
    IF IsLegacyShare(u)
    THEN HostOf(r) = <<"dl.dropboxusercontent.com">> /\ NoDl(r)
    ELSE IF IsNewShare(u)
    THEN HostOf(r) = HostOf(u) /\ NoDl(r) /\ RawEnabled(r)
    ELSE r = DecodeAmp(u)

\* C16: the result of the normalizer is the one the correctness table gives:
\* a legacy-share URL is on the direct-content host with no download toggle,
\* a new-share URL keeps its host, has no download toggle and has the
\* raw-render parameter enabled, and a URL on the direct-content host or on
\* another host is returned as it is, with its ampersands decoded.
C16_Table ==
    /\ Len(converted) >= 1 => TableRow(url, converted[1])
    /\ Len(convertedFix) >= 1 => TableRow(url, convertedFix[1])

\* C17: every operation that names a key for one input URL names the same key.
C17_SameKey == \A r1, r2 \in keysUsed : r1.key = r2.key

\* C18: when a key that is not cached is stored while the cache holds
\* LruCapacity keys, exactly one key is evicted, the one least recently
\* accessed by a get hit or a put, and the other keys stay; a get hit keeps
\* every key.
C18_LruEviction ==
    [][/\ \A k \in LruKeys :
            (/\ ~MemHas(memoryCache, k)
             /\ Len(memoryCache) = LruCapacity
             /\ \E v \in LruHandles : LruPut(k, v)) =>
                /\ MemKeys(memoryCache) \ MemKeys(memoryCache') = {recency[1]}
                /\ MemKeys(memoryCache') \ MemKeys(memoryCache) = {k}
       /\ \A k \in LruKeys :
            (MemHas(memoryCache, k) /\ LruGet(k)) =>
                /\ MemKeys(memoryCache') = MemKeys(memoryCache)
                /\ memoryCache'[Len(memoryCache')].key = k]_vars

Older(k) == idb[k] # NoEntry /\ now - idb[k].timestamp > CACHE_DURATION

\* the entry of key k is newer than the retention horizon
Newer(k) == idb[k] # NoEntry /\ now - idb[k].timestamp < CACHE_DURATION

\* a get of an entry older than the horizon returns absent
OldReadsAbsent ==
    \A k \in Keys :
        (Older(k) /\ \E rd \in ReadModes : StoreGet(k, rd)) => got'.blob = "none"

NewlySettled(p, pc) ==
    /\ promises'[p].pc = pc
    /\ (p > Len(promises) \/ promises[p].pc # pc)

RECURSIVE Flatten(_)
\* the concatenation of a sequence of sequences
Flatten(ss) == IF ss = <<>> THEN <<>> ELSE Head(ss) \o Flatten(Tail(ss))

\* C22: the batches a call of prefetchImages has issued are, joined in the
\* order of issue, a prefix of the filtered list: every entry is in exactly
\* one batch, in input order; every batch holds PREFETCH_BATCH_SIZE entries
\* but for the last, which holds the rest; when the call is done
\* ceil(n / PREFETCH_BATCH_SIZE) batches were issued; and a batch is issued
\* no sooner than PREFETCH_DELAY ms after the batch before it.
C22_PrefetchBatching ==
    /\ [](LET issued == prefetch.issued
              n == Len(prefetch.fixedUrls)
          IN /\ Len(Flatten(issued)) <= n
             /\ Flatten(issued) = SubSeq(prefetch.fixedUrls, 1, Len(Flatten(issued)))
             /\ \A i \in 1..Len(issued) :
                   /\ Len(issued[i]) \in 1..PREFETCH_BATCH_SIZE
                   /\ i < Len(issued) => Len(issued[i]) = PREFETCH_BATCH_SIZE
             /\ prefetch.phase = "done" =>
                   /\ Flatten(issued) = prefetch.fixedUrls
                   /\ Len(issued) * PREFETCH_BATCH_SIZE >= n
                   /\ n > 0 => (Len(issued) - 1) * PREFETCH_BATCH_SIZE < n)
    /\ [][(PrefetchIdle /\ prefetch.issued # <<>>) =>
              now >= prefetch.lastAt + PREFETCH_DELAY]_vars

\* a call with MaxUrls entries passing the filter is done: all but the last
\* batch are full and the last holds what is left
C22_Witness ==
    /\ prefetch.phase = "done"
    /\ Len(prefetch.fixedUrls) = MaxUrls
    /\ Len(prefetch.issued) = (MaxUrls + PREFETCH_BATCH_SIZE - 1) \div PREFETCH_BATCH_SIZE
    /\ Len(prefetch.issued[Len(prefetch.issued)]) =
          MaxUrls - (Len(prefetch.issued) - 1) * PREFETCH_BATCH_SIZE

\* C23: prefetchImages issues no load whose key was in the memory cache, the
\* in-flight map or the FailureRecord map when prefetchImages was called.
C23_PrefetchFilter ==
    \A i \in 1..Len(prefetch.issued) :
        \A j \in 1..Len(prefetch.issued[i]) :
            convertDropboxUrl(prefetch.issued[i][j]) \notin prefetch.snap

\* the same for the key the filter tested, the URL converted once
C23_FilteredKey ==
    \A i \in 1..Len(prefetch.issued) :
        \A j \in 1..Len(prefetch.issued[i]) :
            prefetch.issued[i][j] \notin prefetch.snap

\* the calls of doLoad made for element e by enhanceImageElement or by the
\* observer callback
DoLoads(e) == {c \in 1..Len(calls) : calls[c].src = "doLoad" /\ calls[c].key = ElemKey(e)}

\* C24: only an enhanced element whose load is pending is registered with
\* the observer; the observer callback for an intersecting wrapper leaves
\* the element unregistered and not pending; and enhanceImageElement and the
\* visibility signals together run doLoad at most once for an element.
C24_NoRepeatTrigger ==
    /\ [](\A e \in Elems :
             /\ Cardinality(DoLoads(e)) <= 1
             /\ elements[e].observed => (elements[e].enhanced /\ elements[e].pendingLoad))
    /\ [][\A e \in Elems :
             (\E rd \in ReadModes : Intersect(e, rd)) =>
                 (~elements'[e].observed /\ ~elements'[e].pendingLoad)]_vars

\* an observed element became visible: its load was triggered once and it is
\* no longer registered
C24_Witness ==
    /\ observer
    /\ \E e \in Elems :
          /\ elements[e].enhanced /\ ~elements[e].observed /\ ~elements[e].pendingLoad
          /\ Cardinality(DoLoads(e)) = 1

\* C25: with an observer enhanceImageElement registers the element and
\* starts no load, and doLoad runs only in the observer callback; without
\* an observer enhanceImageElement calls doLoad itself, and returns while the
\* load it started is pending.
C25_DeferOrFallback ==
    [][/\ \A e \in Elems :
             (\E rd \in ReadModes : enhanceImageElement(e, rd)) =>
                 IF observer
                 THEN /\ calls' = calls /\ promises' = promises
                      /\ elements'[e].observed /\ elements'[e].pendingLoad
                 ELSE /\ IsCall
                      /\ calls'[Len(calls')].src = "doLoad"
                      /\ calls'[Len(calls')].key = ElemKey(e)
                      /\ ~elements'[e].observed
       /\ (observer /\ IsCall /\ calls'[Len(calls')].src = "doLoad") =>
             \E e \in Elems, rd \in ReadModes : Intersect(e, rd)]_vars

\* without an observer the element was enhanced and the load started by
\* that call is still running
C25_Witness ==
    /\ ~observer
    /\ \E e \in Elems :
          /\ elements[e].enhanced
          /\ \E c \in DoLoads(e) : promises[calls[c].pid].pc \in Pending

\* with an observer the element is registered and nothing was loaded
C25_Deferred ==
    /\ observer
    /\ \E e \in Elems : elements[e].observed /\ DoLoads(e) = {}
    /\ promises = <<>>

\* C26: the delay getRetryDelay returns for attempt k never exceeds
\* MAX_RETRY_DELAY; it is not shorter than BASE_RETRY_DELAY * 2^k as long as
\* that is at most MAX_RETRY_DELAY; and for the attempts that are followed
\* by a retry, k < ConfiguredRetries, it lies between BASE_RETRY_DELAY * 2^k
\* and the smaller of 1.3 * BASE_RETRY_DELAY * 2^k and MAX_RETRY_DELAY.
C26_BackoffBound ==
    backoff.delay # 0 =>
        LET exponentialDelay == BASE_RETRY_DELAY * Pow2(backoff.attempt)
        IN /\ backoff.delay <= MAX_RETRY_DELAY
           /\ exponentialDelay <= MAX_RETRY_DELAY => backoff.delay >= exponentialDelay
           /\ backoff.attempt < ConfiguredRetries =>
                 /\ exponentialDelay <= backoff.delay
                 /\ 10 * backoff.delay <= 13 * exponentialDelay
                 /\ backoff.delay <= MAX_RETRY_DELAY

\* the delay after the last attempt that is retried, with jitter
C26_Witness ==
    /\ backoff.attempt = ConfiguredRetries - 1
    /\ backoff.random > 0
    /\ backoff.delay > BASE_RETRY_DELAY * Pow2(backoff.attempt)

\* a delay that is cut to MAX_RETRY_DELAY
C26_Capped ==
    /\ backoff.delay = MAX_RETRY_DELAY
    /\ BASE_RETRY_DELAY * Pow2(backoff.attempt) < MAX_RETRY_DELAY

\* C27: the test of state.loading and the entry of the new promise are one
\* step: a promise is entered only for a key that has no entry, it is the
\* promise made in that step, every pending promise a step makes is entered
\* in that step, and a call that finds an entry gets the promise entered and
\* makes none.
C27_AtomicCheckInsert ==
    [][/\ \A k \in Keys :
             (loading'[k] # loading[k] /\ loading'[k] # 0) =>
                 /\ loading[k] = 0
                 /\ loading'[k] > Len(promises)
                 /\ promises'[loading'[k]].key = k
       /\ \A p \in (Len(promises) + 1)..Len(promises') :
             promises'[p].pc \in Pending => loading'[promises'[p].key] = p
       /\ (IsCall /\ loading[calls'[Len(calls')].key] # 0) =>
             /\ calls'[Len(calls')].pid = loading[calls'[Len(calls')].key]
             /\ promises' = promises]_vars

\* two calls for one key, the second made while the first was in flight:
\* one promise, one entry
C27_Witness ==
    /\ Len(calls) = 2 /\ Len(promises) = 1
    /\ calls[1].key = calls[2].key /\ calls[1].pid = 1 /\ calls[2].pid = 1
    /\ promises[1].pc \in Pending
    /\ loading[calls[1].key] = 1

\* promise i of loadImageElement rejects in this step
ImgRejects(i) ==
    /\ imgLoads'[i].pc = "rejected"
    /\ (i > Len(imgLoads) \/ imgLoads[i].pc # "rejected")

\* C28: when a load settles as failed, the FailureRecord of its key counts
\* MAX_RETRIES + 1 attempts and the key has no in-flight entry.
C28_FailureRecorded ==
    [][\A i \in 1..Len(imgLoads') :
          ImgRejects(i) =>
              /\ failed'[imgLoads'[i].key].attempts = MAX_RETRIES + 1
              /\ loading'[imgLoads'[i].key] = 0]_vars

\* the same for the loads of loadImageElement that fail with an error event
C28_OnErrorEvent ==
    [][\A i \in 1..Len(imgLoads') :
          (ImgRejects(i) /\ imgLoads'[i].err = "Load failed") =>
              /\ failed'[imgLoads'[i].key].attempts = MAX_RETRIES + 1
              /\ loading'[imgLoads'[i].key] = 0]_vars

\* the same for the loads of loadImage
C28_LoadImage ==
    [][\A p \in 1..Len(promises') :
          NewlySettled(p, "rejected") =>
              /\ failed'[promises'[p].key].attempts = MAX_RETRIES + 1
              /\ loading'[promises'[p].key] = 0]_vars

\* C29: the memory cache never holds more than MEMORY_CACHE_MAX entries.
C29_CacheBound == Len(memoryCache) <= MEMORY_CACHE_MAX

\* loads of all keys have succeeded from the network and the cache is full
C29_Witness ==
    /\ Len(memoryCache) = MEMORY_CACHE_MAX
    /\ putRequested = Keys
    /\ \A k \in Keys : \E p \in 1..Len(promises) :
          promises[p].key = k /\ promises[p].pc = "resolved" /\ promises[p].val = p

\* the object URLs the memory cache holds
Stored(mc) == {mc[i].val : i \in 1..Len(mc)}

\* C30: no object URL held by the memory cache is revoked, and an object
\* URL is revoked only in a step that takes it out of the memory cache, so
\* an evicted entry is revoked and gone when the new entry is in the cache.
C30_RevokeOnEviction ==
    /\ [](Stored(memoryCache) \cap revoked = {})
    /\ [][\A h \in revoked' \ revoked :
             h \in Stored(memoryCache) /\ h \notin Stored(memoryCache')]_vars

\* a stored image evicted the entry of another key: the evicted object URL
\* is revoked, the new one is cached, and the store holds both images
C30_Witness ==
    /\ dbOpen
    /\ \A k \in Keys : idb[k] # NoEntry
    /\ Len(memoryCache) = 1
    /\ revoked # {}
    /\ \E p \in revoked : promises[p].pc = "resolved" /\ promises[p].key # memoryCache[1].key

\* C31: when the body of a successful fetch arrives as an image, the load
\* resolves in that step with the object URL it creates and the memory cache
\* holds that object URL for the key, whether the put of storeInIndexedDB
\* goes through or not.
C31_PutFailureHarmless ==
    [][\A p \in 1..Len(promises) : \A putThrows \in BOOLEAN :
          BlobDone(p, "image", putThrows) =>
              /\ promises'[p].pc = "resolved"
              /\ promises'[p].val = p
              /\ MemHas(memoryCache', promises[p].key)
              /\ MemVal(memoryCache', promises[p].key) = p]_vars

\* a load has resolved from the network and its object URL is cached, and
\* the store, which is open, did not take the image
C31_Witness ==
    /\ dbOpen
    /\ \E p \in 1..Len(promises) :
          /\ promises[p].pc = "resolved" /\ promises[p].val = p
          /\ promises[p].key \in putRequested
          /\ idb[promises[p].key] = NoEntry
          /\ MemHas(memoryCache, promises[p].key)
          /\ MemVal(memoryCache, promises[p].key) = p

\* C32: a load that was in flight, or waiting for its retry, when clearCache
\* ran never afterwards inserts its result into the memory cache or the
\* store and never records a failure: the step in which such a load settles
\* leaves the memory cache, the store and the failure records as they were
C32_ClearNotUndone ==
    [][\A p \in 1..Len(promises) :
          (/\ p <= clearedAt
           /\ promises[p].pc \in Pending
           /\ promises'[p].pc \in Settled)
          => /\ memoryCache' = memoryCache
             /\ idb' = idb
             /\ failed' = failed]_vars

\* C33: a load removes only the in-flight entry it inserted itself: when a
\* callback of a load takes the entry of a key out of the in-flight map, the
\* promise that entry held is the one the callback belongs to, so the entry
\* of a different load that has not settled stays
C33_EntryOwnership ==
    [][\A k \in Keys :
          (/\ loading[k] # 0
           /\ loading'[k] # loading[k]
           /\ promises' # promises)
          => promises'[loading[k]] # promises[loading[k]]]_vars

\* C34: in every reachable state every promise held in the in-flight map is
\* still pending
C34_InFlightPending ==
    \A k \in Keys :
        loading[k] # 0 =>
            /\ loading[k] \in 1..Len(promises)
            /\ promises[loading[k]].key = k
            /\ promises[loading[k]].pc \in Pending

\* a load is registered for a key of which another load has already settled
C34_Witness ==
    \E k \in Keys :
        /\ loading[k] # 0
        /\ promises[loading[k]].pc \in Pending
        /\ \E q \in 1..Len(promises) :
               promises[q].key = k /\ promises[q].pc \in Settled

\* C35: in every reachable state no key has at once a handle in the memory
\* cache and a FailureRecord
C35_CachedOrFailed ==
    \A k \in Keys : ~(MemHas(memoryCache, k) /\ failed[k] # NoFailure)

\* C36: no object URL leaks: in every reachable state each object URL a load
\* created is the value the memory cache holds for its key or has been
\* revoked
C36_NoHandleLeak ==
    \A p \in 1..Len(promises) :
        (promises[p].pc = "resolved" /\ promises[p].val = p)
        => \/ /\ MemHas(memoryCache, promises[p].key)
              /\ MemVal(memoryCache, promises[p].key) = p
           \/ p \in revoked

\* C37: the read of the store and the sweep agree on expiry: in every
\* reachable state an entry is one the read treats as absent exactly when a
\* sweep run in that state deletes it, an entry whose age equals the
\* retention horizon included
C37_ExpiryAgreement ==
    \A k \in Keys :
        idb[k] # NoEntry =>
            ((IdbResult(idb[k], FALSE) = "none")
                <=> ENABLED (cleanupIndexedDB /\ idb'[k] = NoEntry))

\* a get whose request succeeded has just returned absent for an entry whose
\* age equals the horizon
C37_Witness ==
    \E k \in Keys :
        /\ idb[k] # NoEntry /\ now - idb[k].timestamp = CACHE_DURATION
        /\ got = [key |-> k, blob |-> "none", rd |-> "ok", at |-> now]

\* C38: when a batch of prefetchImages is issued, no fetch is started for a
\* key that at that moment has a FailureRecord, is in flight or is in the
\* memory cache
C38_NoPrefetchOfKnownKey ==
    [][PrefetchIdle =>
          \A p \in (Len(promises) + 1)..Len(promises') :
              promises'[p].pc = "fetch" => promises'[p].key \notin MapKeys]_vars

\* C39: a call of loadImageWithRetry that found the URL in loadingImages
\* settles with the outcome of the load it waited for: in the step in which
\* it resolves that load has resolved, with the same image, and in the step
\* in which it rejects that load has rejected
C39_WaiterFollowsLoad ==
    [][\A c \in 1..Len(fix.calls) :
          (/\ fix.calls[c].kind = "wait"
           /\ fix.calls[c].pc = "polling"
           /\ fix'.calls[c].pc # "polling")
          => LET w == fix.calls[c].watched
             IN /\ fix'.calls[w].pc = fix'.calls[c].pc
                /\ fix'.calls[w].img = fix'.calls[c].img]_vars

====
